---- MODULE Spec2Model ----
(***************************************************************************)
(* The multi-key API credential manager (KeyManager, keyManager.ts) and    *)
(* the request orchestrator that retries across the key pool               *)
(* (GeminiAgent.submitQuery).                                              *)
(*                                                                         *)
(* One action is one synchronous segment of the JavaScript event loop: a   *)
(* handler runs from its call, or from the resumption of an await, to its  *)
(* next await or return.  Time (Date.now()) only advances between          *)
(* segments.                                                               *)
(***************************************************************************)
EXTENDS Integers, Sequences, FiniteSets, TLC

VARIABLES
  keys,            \* KeyManager.keys: the pool, a sequence of IApiKey records
  refs,            \* object identity of the pool entries: refs[p] is the first
                   \* position holding the same IApiKey object as position p
  activeKeyIndex,  \* KeyManager.activeKeyIndex (zero-based)
  initialized,     \* KeyManager.initialized
  initCall,        \* the activation of KeyManager.init (its await position)
  now,             \* Date.now(), in milliseconds
  store,           \* ConfigStorage record "gemini.config"
  persists,        \* the persistState() calls in flight, in call order
  envKey,          \* process.env.GEMINI_API_KEY
  q,               \* the activation of GeminiAgent.submitQuery
  events,          \* what onStreamEvent received for the current msg_id
  op,              \* the last call made on the manager or the agent: its name,
                   \* numeric argument, returned index and boolean result
  calls,           \* number of calls the manager's users may still make
  onStatusChangeCallback,  \* KeyManager.onStatusChangeCallback: the observer
                   \* registered, NoObserver while it is undefined
  notifications    \* the observer invocations made so far: who was invoked,
                   \* with which snapshot

kmVars == <<keys, refs, activeKeyIndex, initialized>>
obsVars == <<onStatusChangeCallback, notifications>>
vars == <<keys, refs, activeKeyIndex, initialized, initCall, now, store,
          persists, envKey, q, events, op, calls, onStatusChangeCallback,
          notifications>>

(***************************************************************************)
(* Bounds of the model                                                     *)
(***************************************************************************)
MaxTicks == 2
MaxCalls == 3
MaxAgentCalls == 1
MaxPersists == 2
MaxMarks == 10

MaxStreamEvents == 1

(***************************************************************************)
(* Program constants                                                       *)
(***************************************************************************)
MaxKeys == 5
BaseResetTime == 60 * 1000
MaxBackoff == 5
\* JavaScript undefined in an optional numeric field (resetTime, lastUsed)
Undefined == -1
\* the null returned where a key is expected
NoKey == -1

TickMs == BaseResetTime
StartTime == 10 * BaseResetTime

Min(S) == CHOOSE x \in S : \A y \in S : x <= y
Max2(a, b) == IF a >= b THEN a ELSE b
Min2(a, b) == IF a <= b THEN a ELSE b

\* JavaScript truthiness of an optional number: undefined and 0 are falsy
Truthy(n) == n # Undefined /\ n # 0
\* (n || 0)
OrZero(n) == IF Truthy(n) THEN n ELSE 0

\* keys[i] for the zero-based index i
At(ks, i) == ks[i + 1]
InRange(ks, i) == i >= 0 /\ i < Len(ks)

\* A mutation of the object at zero-based index i is seen at every position
\* that holds the same object.
WriteKey(ks, rf, i, rec) ==
  [p \in DOMAIN ks |-> IF rf[p] = rf[i + 1] THEN rec ELSE ks[p]]

\* Identity labels made canonical: each position names the first position
\* holding the same object.
Canon(ids) ==
  [p \in DOMAIN ids |-> Min({m \in 1..p : ids[m] = ids[p]})]

FreshKey(secret) ==
  [key |-> secret, status |-> "valid", resetTime |-> Undefined,
   lastUsed |-> Undefined, errorCount |-> 0]

\* a revival that keeps the error count
ResurrectKeepsCount(k) ==
  [k EXCEPT !.status = "valid", !.resetTime = Undefined]

\* status -> valid, resetTime cleared, errorCount reset
Resurrect(k) ==
  [k EXCEPT !.status = "valid", !.resetTime = Undefined, !.errorCount = 0]

\* a cooldown that counts as over at the reset time itself
CooldownReached(k, t) == t >= OrZero(k.resetTime)

\* Date.now() > (key.resetTime || 0)
CooldownElapsed(k, t) == t > OrZero(k.resetTime)

\* an availability test that counts valid keys only
OnlyValidAvailable(k, t) == k.status = "valid"

KeyAvailable(k, t) ==
  \/ k.status = "valid"
  \/ k.status = "rate-limited" /\ CooldownElapsed(k, t)

hasAvailableKeys(ks, t) == \E p \in DOMAIN ks : KeyAvailable(ks[p], t)

(***************************************************************************)
(* KeyManager operations, as functions of the manager's fields             *)
(* km = [keys, refs, activeKeyIndex] and of Date.now().  Each yields the   *)
(* fields after the synchronous part of the call, the value returned       *)
(* (ret: a zero-based index or NoKey; ok: the boolean result), the number  *)
(* of persistState() calls it started, the number of notifyStatusChange()  *)
(* calls it made and the snapshot each of them took: in every operation    *)
(* but init each persistState() call directly follows a                    *)
(* notifyStatusChange() call, and both come after the last assignment.     *)
(***************************************************************************)
\* a snapshot that always reports the first key as active
SnapshotAtFirstKey(ks, a) == [keys |-> ks, activeKeyIndex |-> 0]

\* notifyStatusChange: the arguments ([...this.keys], this.activeKeyIndex)
StatusSnapshot(ks, a) == [keys |-> ks, activeKeyIndex |-> a]

Result(ks, rf, a, ret, ok, np) ==
  [keys |-> ks, refs |-> rf, activeKeyIndex |-> a, ret |-> ret, ok |-> ok,
   persist |-> np, notify |-> np,
   snapshots |-> [j \in 1..np |-> StatusSnapshot(ks, a)]]

\* a call that changes nothing but still notifies and persists
UnchangedButAnnounced(km, ret, ok) ==
  Result(km.keys, km.refs, km.activeKeyIndex, ret, ok, 1)

Unchanged(km, ret, ok) ==
  Result(km.keys, km.refs, km.activeKeyIndex, ret, ok, 0)

\* a scan that starts at the active index instead of the one after it
RingIndexFromActive(a, i, n) == (a + i) % n

RingIndex(a, i, n) == (a + 1 + i) % n

\* a candidate test that lets invalid keys through
NotCoolingDownQualifies(k, t) ==
  k.status # "rate-limited" \/ CooldownElapsed(k, t)

\* a candidate test that passes over every rate-limited key
OnlyValidQualifies(k, t) == k.status = "valid"

SwitchCandidateQualifies(k, t) ==
  \/ k.status = "valid"
  \/ k.status = "rate-limited" /\ CooldownElapsed(k, t)

switchToNextAvailableKey(km, t) ==
  LET n == Len(km.keys)
      hits == {i \in 0..(n - 1) :
                 SwitchCandidateQualifies(
                   At(km.keys, RingIndex(km.activeKeyIndex, i, n)), t)}
  IN IF hits = {}
     THEN Unchanged(km, NoKey, FALSE)
     ELSE LET nextIndex == RingIndex(km.activeKeyIndex, Min(hits), n)
              nextKey == At(km.keys, nextIndex)
              selected == IF nextKey.status = "valid"
                          THEN [nextKey EXCEPT !.lastUsed = t]
                          ELSE [Resurrect(nextKey) EXCEPT !.lastUsed = t]
          IN Result(WriteKey(km.keys, km.refs, nextIndex, selected), km.refs,
                    nextIndex, nextIndex, TRUE, 1)

\* An active index outside the pool makes keys[activeKeyIndex] undefined and
\* the read of its status throw: ok is FALSE with ret NoKey and nothing changed.
getActiveKey(km, t) ==
  IF Len(km.keys) = 0 THEN Unchanged(km, NoKey, TRUE)
  ELSE IF ~InRange(km.keys, km.activeKeyIndex) THEN Unchanged(km, NoKey, FALSE)
  ELSE LET activeKey == At(km.keys, km.activeKeyIndex)
       IN IF activeKey.status = "valid"
          THEN Result(WriteKey(km.keys, km.refs, km.activeKeyIndex,
                               [activeKey EXCEPT !.lastUsed = t]),
                      km.refs, km.activeKeyIndex, km.activeKeyIndex, TRUE, 0)
          ELSE switchToNextAvailableKey(km, t)

switchToKey(km, keyIndex, t) ==
  IF ~InRange(km.keys, keyIndex) THEN Unchanged(km, NoKey, FALSE)
  ELSE LET targetKey == At(km.keys, keyIndex)
           revived == IF targetKey.status = "rate-limited"
                         /\ CooldownElapsed(targetKey, t)
                      THEN Resurrect(targetKey)
                      ELSE targetKey
       IN IF targetKey.status = "invalid" THEN Unchanged(km, NoKey, FALSE)
          ELSE IF revived.status = "valid"
          THEN Result(WriteKey(km.keys, km.refs, keyIndex,
                               [revived EXCEPT !.lastUsed = t]),
                      km.refs, keyIndex, keyIndex, TRUE, 1)
          ELSE Unchanged(km, NoKey, FALSE)

\* a reset time that always applies the largest backoff
LongestResetTime(override, errorCount, t) ==
  IF Truthy(override) THEN override ELSE t + BaseResetTime * MaxBackoff

\* a reset time whose backoff grows with errorCount without a cap
UncappedResetTime(override, errorCount, t) ==
  IF Truthy(override) THEN override ELSE t + BaseResetTime * errorCount

\* a reset time that is the override whether or not one was given
OverrideResetTime(override, errorCount, t) == override

\* resetTime || Date.now() + baseResetTime * backoffMultiplier
RateLimitResetTime(override, errorCount, t) ==
  IF Truthy(override) THEN override
  ELSE t + BaseResetTime * Min2(errorCount, MaxBackoff)

markCurrentAsRateLimited(km, override, t) ==
  IF ~InRange(km.keys, km.activeKeyIndex) THEN Unchanged(km, NoKey, TRUE)
  ELSE LET key == At(km.keys, km.activeKeyIndex)
           count == key.errorCount + 1
           marked == [key EXCEPT !.status = "rate-limited",
                                 !.errorCount = count,
                                 !.resetTime =
                                    RateLimitResetTime(override, count, t)]
       IN Result(WriteKey(km.keys, km.refs, km.activeKeyIndex, marked),
                 km.refs, km.activeKeyIndex, NoKey, TRUE, 1)

markCurrentAsInvalid(km) ==
  IF ~InRange(km.keys, km.activeKeyIndex) THEN Unchanged(km, NoKey, TRUE)
  ELSE LET key == At(km.keys, km.activeKeyIndex)
           marked == [key EXCEPT !.status = "invalid",
                                 !.errorCount = key.errorCount + 1]
       IN Result(WriteKey(km.keys, km.refs, km.activeKeyIndex, marked),
                 km.refs, km.activeKeyIndex, NoKey, TRUE, 1)

\* an addKey check without the duplicate rule
AddKeyRejectedAtLimit(km, newKey) == Len(km.keys) >= MaxKeys

AddKeyRejected(km, newKey) ==
  \/ Len(km.keys) >= MaxKeys
  \/ \E p \in DOMAIN km.keys : km.keys[p].key = newKey

addKey(km, newKey) ==
  IF AddKeyRejected(km, newKey) THEN Unchanged(km, NoKey, FALSE)
  ELSE Result(Append(km.keys, FreshKey(newKey)),
              Append(km.refs, Len(km.keys) + 1),
              km.activeKeyIndex, NoKey, TRUE, 1)

\* a removal check without the last-key rule
RemoveKeyRejectedOutOfRange(km, keyIndex) ==
  keyIndex < 0 \/ keyIndex >= Len(km.keys)

\* a removal check that lets the index one past the end through
RemoveKeyRejectedPastEnd(km, keyIndex) ==
  keyIndex < 0 \/ keyIndex > Len(km.keys) \/ Len(km.keys) <= 1

RemoveKeyRejected(km, keyIndex) ==
  keyIndex < 0 \/ keyIndex >= Len(km.keys) \/ Len(km.keys) <= 1

\* keys.splice(keyIndex, 1)
Splice(s, keyIndex) ==
  SubSeq(s, 1, keyIndex) \o SubSeq(s, keyIndex + 2, Len(s))

\* a removal that leaves the active index where it was
KeepActiveIndex(a, keyIndex) == a

\* an adjustment that moves the active index only when it lies after the
\* removed position
DecrementWhenAfter(a, keyIndex) == IF a > keyIndex THEN a - 1 ELSE a

\* an adjustment that moves the active index down whatever was removed
DecrementAlways(a, keyIndex) == Max2(0, a - 1)

RemoveKeyActiveIndex(a, keyIndex) ==
  IF a >= keyIndex THEN Max2(0, a - 1) ELSE a

removeKey(km, keyIndex) ==
  IF RemoveKeyRejected(km, keyIndex) THEN Unchanged(km, NoKey, FALSE)
  ELSE Result(Splice(km.keys, keyIndex),
              Canon(Splice(km.refs, keyIndex)),
              RemoveKeyActiveIndex(km.activeKeyIndex, keyIndex),
              NoKey, TRUE, 1)

\* now > key.resetTime, for a truthy resetTime of a rate-limited key
CleanupExpired(k, t) ==
  k.status = "rate-limited" /\ Truthy(k.resetTime) /\ t > k.resetTime

cleanupExpiredRateLimits(ks, t) ==
  [p \in DOMAIN ks |-> IF CleanupExpired(ks[p], t) THEN Resurrect(ks[p])
                       ELSE ks[p]]

\* the first position of the pool holding the secret, 0 when there is none
FindKey(ks, secret) ==
  IF \E p \in DOMAIN ks : ks[p].key = secret
  THEN Min({p \in DOMAIN ks : ks[p].key = secret})
  ELSE 0

UpdateKeysRejected(newKeys) == Len(newKeys) = 0 \/ Len(newKeys) > MaxKeys

\* a replacement that leaves the active index where it was
UpdateKeysKeepsIndex(a, n) == a

UpdateKeysActiveIndex(a, n) == IF a >= n THEN 0 ELSE a

\* A rejected call throws: ok is FALSE and nothing has changed.
updateKeys(km, newKeys, t) ==
  IF UpdateKeysRejected(newKeys) THEN Unchanged(km, NoKey, FALSE)
  ELSE LET old == Len(km.keys)
           updatedKeys ==
             [j \in DOMAIN newKeys |->
                IF FindKey(km.keys, newKeys[j]) # 0
                THEN km.keys[FindKey(km.keys, newKeys[j])]
                ELSE FreshKey(newKeys[j])]
           ids ==
             [j \in DOMAIN newKeys |->
                IF FindKey(km.keys, newKeys[j]) # 0
                THEN km.refs[FindKey(km.keys, newKeys[j])]
                ELSE old + j]
       IN Result(cleanupExpiredRateLimits(updatedKeys, t), Canon(ids),
                 UpdateKeysActiveIndex(km.activeKeyIndex, Len(newKeys)),
                 NoKey, TRUE, 1)

(***************************************************************************)
(* The durable record "gemini.config" (IGeminiConfig).  An absent field is *)
(* the empty string, the empty list, 0 or a keyManagerState that is not    *)
(* present.                                                                *)
(***************************************************************************)
NoState ==
  [present |-> FALSE, keys |-> <<>>, activeKeyIndex |-> 0,
   lastRotationTime |-> 0]

NoConfig ==
  [present |-> FALSE, GEMINI_API_KEY |-> "", GEMINI_API_KEYS |-> <<>>,
   activeKeyIndex |-> 0, keyManagerState |-> NoState]

Config(legacy, list, a, state) ==
  [present |-> TRUE, GEMINI_API_KEY |-> legacy, GEMINI_API_KEYS |-> list,
   activeKeyIndex |-> a, keyManagerState |-> state]

SavedState(ks, a, t) ==
  [present |-> TRUE, keys |-> ks, activeKeyIndex |-> a, lastRotationTime |-> t]

SavedKey(secret, status, resetTime, lastUsed, errorCount) ==
  [key |-> secret, status |-> status, resetTime |-> resetTime,
   lastUsed |-> lastUsed, errorCount |-> errorCount]

\* init: the configured credential strings
ConfiguredKeys(config) ==
  IF ~config.present THEN <<>>
  ELSE IF config.GEMINI_API_KEY # "" /\ Len(config.GEMINI_API_KEYS) = 0
  THEN <<config.GEMINI_API_KEY>>
  ELSE config.GEMINI_API_KEYS

\* init: the configured active index
ConfiguredActiveIndex(config) ==
  IF ~config.present THEN 0
  ELSE IF config.GEMINI_API_KEY # "" /\ Len(config.GEMINI_API_KEYS) = 0
  THEN 0
  ELSE config.activeKeyIndex

\* init: one pool entry, from the saved entry with the same secret if any
\* a reconciliation that ignores the saved state
ReconcileAsFresh(savedState, secret) == FreshKey(secret)

ReconcileKey(savedState, secret) ==
  IF savedState.present /\ FindKey(savedState.keys, secret) # 0
  THEN LET savedKey == savedState.keys[FindKey(savedState.keys, secret)]
       IN [key |-> secret, status |-> savedKey.status,
           resetTime |-> savedKey.resetTime, lastUsed |-> savedKey.lastUsed,
           errorCount |-> savedKey.errorCount]
  ELSE FreshKey(secret)

\* init: the active index restored, or the field left as it is
RestoredActiveIndex(savedState, activeIndex, n, current) ==
  IF savedState.present /\ savedState.activeKeyIndex < n
  THEN savedState.activeKeyIndex
  ELSE IF activeIndex # 0 /\ activeIndex < n THEN activeIndex
  ELSE current

\* init, from the configuration read to the call of persistState
init(km, config, t) ==
  LET apiKeys == ConfiguredKeys(config)
      savedState == IF config.present THEN config.keyManagerState ELSE NoState
      loaded == [j \in DOMAIN apiKeys |-> ReconcileKey(savedState, apiKeys[j])]
  IN [Result(cleanupExpiredRateLimits(loaded, t),
             [j \in DOMAIN apiKeys |-> j],
             RestoredActiveIndex(savedState, ConfiguredActiveIndex(config),
                                 Len(apiKeys), km.activeKeyIndex),
             NoKey, TRUE, 1) EXCEPT !.notify = 0, !.snapshots = <<>>]

\* persistState: the record handed to ConfigStorage.set
PersistedConfig(config, ks, a, t) ==
  [config EXCEPT !.present = TRUE,
                 !.keyManagerState = SavedState(ks, a, t),
                 !.GEMINI_API_KEYS = [p \in DOMAIN ks |-> ks[p].key],
                 !.activeKeyIndex = a]

PendingGet == [phase |-> "get", config |-> NoConfig]
PendingSet(config) == [phase |-> "set", config |-> config]

RemoveAt(s, p) == SubSeq(s, 1, p - 1) \o SubSeq(s, p + 1, Len(s))

(***************************************************************************)
(* Error messages and their classification by submitQuery                  *)
(***************************************************************************)
\* the error of a rejection that carries no message (e.message undefined)
NoMessage == "<undefined>"
ExhaustedMessage == "All API keys are exhausted."
StreamErrorMessage == "stream failed"
RateLimitInfo == "API key rate-limited. Switching to the next available key."
InvalidInfo == "API key is invalid. Switching to the next available key."

UpperCase == "ABCDEFGHIJKLMNOPQRSTUVWXYZ"
LowerCase == "abcdefghijklmnopqrstuvwxyz"

LowerChar(c) ==
  IF \E j \in 1..Len(UpperCase) : SubSeq(UpperCase, j, j) = c
  THEN LET j == CHOOSE j \in 1..Len(UpperCase) : SubSeq(UpperCase, j, j) = c
       IN SubSeq(LowerCase, j, j)
  ELSE c

RECURSIVE toLowerCase(_)
toLowerCase(s) ==
  IF Len(s) = 0 THEN ""
  ELSE LowerChar(SubSeq(s, 1, 1)) \o toLowerCase(SubSeq(s, 2, Len(s)))

\* s.includes(sub)
Includes(s, sub) ==
  \E j \in 1..(Len(s) - Len(sub) + 1) : SubSeq(s, j, j + Len(sub) - 1) = sub

\* a classification that compares case-sensitively
isRateLimitErrorCaseSensitive(message) ==
  \/ Includes(message, "429")
  \/ Includes(message, "quota")
  \/ Includes(message, "rate limit")

isRateLimitError(message) ==
  \/ Includes(message, "429")
  \/ Includes(toLowerCase(message), "quota")
  \/ Includes(toLowerCase(message), "rate limit")

\* the messages a rejection of the transport may carry
RejectMessages ==
  { "429 Too Many Requests", "Quota Exceeded", "invalid api key", "",
    NoMessage }

\* the error of a transport call given up because its signal was aborted
AbortMessage == "This operation was aborted"

\* further wordings of transport errors
TransportMessages ==
  RejectMessages \cup
    { AbortMessage, "RATE LIMIT reached", "Resource exhausted (check quota)",
      "HTTP 429", "rate-limit", "fetch failed" }

\* the classification of each of them
RateLimitClass == [m \in TransportMessages |-> isRateLimitError(m)]

\* a terminal error that never carries the transport's message
AlwaysExhaustedMessage(message) == ExhaustedMessage

\* lastError?.message || "All API keys are exhausted."
TerminalErrorData(message) ==
  IF message = "" THEN ExhaustedMessage ELSE message

Event(type, data) == [type |-> type, data |-> data]

(***************************************************************************)
(* Inputs                                                                  *)
(***************************************************************************)
\* what "gemini.config" holds when the process starts
InitialConfigs ==
  { NoConfig,
    Config("A", <<>>, 0, NoState),
    Config("", <<"A", "B">>, 0, NoState),
    Config("", <<"A", "B", "C">>, 2,
           SavedState(<<SavedKey("A", "rate-limited", StartTime - TickMs,
                                 StartTime - 2 * TickMs, 1),
                        SavedKey("B", "invalid", Undefined, Undefined, 1),
                        SavedKey("C", "valid", Undefined, Undefined, 0)>>,
                      2, StartTime - TickMs)),
    Config("", <<"A", "B">>, 1,
           SavedState(<<SavedKey("A", "valid", Undefined, Undefined, 0),
                        SavedKey("B", "rate-limited", StartTime + TickMs,
                                 StartTime - TickMs, 2),
                        SavedKey("C", "valid", Undefined, Undefined, 0)>>,
                      2, StartTime - TickMs)) }

Secrets == {"A", "B", "C"}

UpdateInputs ==
  { <<>>, <<"B">>, <<"B", "A">>, <<"A", "A">>, <<"A", "B", "C">> }

\* the resetTime argument of markCurrentAsRateLimited
Overrides(t) == {Undefined, 0, t - TickMs}

(***************************************************************************)
(* The state after construction                                            *)
(***************************************************************************)
\* the last call: its name, its argument (an index, a reset time, a secret or
\* a list of secrets), what it returned, and how many times it invoked
\* notifyStatusChange
NoCall ==
  [name |-> "new", arg |-> NoKey, ret |-> NoKey, ok |-> TRUE, notify |-> 0]

Call(name, arg, ret, ok) ==
  [name |-> name, arg |-> arg, ret |-> ret, ok |-> ok, notify |-> 0]

\* onStatusChangeCallback while no observer is registered
NoObserver == "<undefined>"

\* notifyStatusChange: the registered callback, if any, is invoked with each
\* snapshot
Delivered(callback, snapshots) ==
  IF callback = NoObserver THEN <<>>
  ELSE [j \in DOMAIN snapshots |->
          [observer |-> callback, keys |-> snapshots[j].keys,
           activeKeyIndex |-> snapshots[j].activeKeyIndex]]

NoQuery ==
  [pc |-> "none", i |-> 0, maxRetries |-> 0, lastError |-> "",
   poolSize |-> 0, attempts |-> 0, outcomes |-> <<>>, streamed |-> 0,
   aborted |-> FALSE, used |-> <<>>]

InitWith(configs, budget) ==
  /\ keys = <<>>
  /\ refs = <<>>
  /\ activeKeyIndex = 0
  /\ initialized = FALSE
  /\ initCall = "none"
  /\ now = StartTime
  /\ store \in configs
  /\ persists = <<>>
  /\ envKey = ""
  /\ q = NoQuery
  /\ events = <<>>
  /\ op = NoCall
  /\ calls = budget
  /\ onStatusChangeCallback = NoObserver
  /\ notifications = <<>>

Init == InitWith(InitialConfigs, MaxCalls)

KM == [keys |-> keys, refs |-> refs, activeKeyIndex |-> activeKeyIndex]

\* The manager's fields take the result of a call, and the persistState()
\* calls it started wait for ConfigStorage.get.
Apply(r, name, arg) ==
  /\ keys' = r.keys
  /\ refs' = r.refs
  /\ activeKeyIndex' = r.activeKeyIndex
  /\ persists' = persists \o [j \in 1..r.persist |-> PendingGet]
  /\ Len(persists') <= MaxPersists
  /\ op' = [Call(name, arg, r.ret, r.ok) EXCEPT !.notify = r.notify]
  /\ notifications' =
       notifications \o Delivered(onStatusChangeCallback, r.snapshots)
  /\ UNCHANGED onStatusChangeCallback

(***************************************************************************)
(* Time and persistence                                                    *)
(***************************************************************************)
\* ConfigStorage answers before the next timer, request or transport event:
\* the steps below that are not persistState's wait for it to finish.
Quiescent == persists = <<>>

Tick ==
  /\ Quiescent
  /\ now < StartTime + MaxTicks * TickMs
  /\ now' = now + TickMs
  /\ UNCHANGED <<kmVars, initCall, store, persists, envKey, q, events, op,
                 calls>>
  /\ UNCHANGED obsVars

\* persistState resumes with the record read and calls ConfigStorage.set
PersistGet(p) ==
  /\ persists[p].phase = "get"
  /\ persists' = [persists EXCEPT ![p] =
                    PendingSet(PersistedConfig(store, keys, activeKeyIndex,
                                               now))]
  /\ UNCHANGED <<kmVars, initCall, now, store, envKey, q, events, op, calls>>
  /\ UNCHANGED obsVars

\* ConfigStorage.set completes
PersistSet(p) ==
  /\ persists[p].phase = "set"
  /\ store' = persists[p].config
  /\ persists' = RemoveAt(persists, p)
  /\ UNCHANGED <<kmVars, initCall, now, envKey, q, events, op, calls>>
  /\ UNCHANGED obsVars

(***************************************************************************)
(* KeyManager.init                                                         *)
(***************************************************************************)
\* an init call that goes on to read the configuration whatever the flag says
InitEntryAlwaysLoads(isInitialized) == "get"

\* if (this.initialized) return; else await ConfigStorage.get
InitEntry(isInitialized) == IF isInitialized THEN "done" ELSE "get"

\* the call: returns at once when initialized, else awaits ConfigStorage.get
InitCall ==
  /\ Quiescent
  /\ initCall = "none"
  /\ initCall' = InitEntry(initialized)
  /\ op' = Call("init", NoKey, NoKey, TRUE)
  /\ UNCHANGED <<kmVars, now, store, persists, envKey, q, events, calls>>
  /\ UNCHANGED obsVars

\* the configuration is read: reconcile, clean up, persist
InitLoaded ==
  /\ initCall = "get"
  /\ initCall' = "done"
  /\ initialized' = TRUE
  /\ Apply(init(KM, store, now), "init", NoKey)
  /\ UNCHANGED <<now, store, envKey, q, events, calls>>

(***************************************************************************)
(* Calls on the manager made by its users                                  *)
(***************************************************************************)
UserCall(r, name, arg) ==
  /\ Quiescent
  /\ initialized
  /\ calls > 0
  /\ calls' = calls - 1
  /\ Apply(r, name, arg)
  /\ UNCHANGED <<initialized, initCall, now, store, envKey, q, events>>

GetActiveKey == UserCall(getActiveKey(KM, now), "getActiveKey", NoKey)

SwitchToNextAvailableKey ==
  UserCall(switchToNextAvailableKey(KM, now), "switchToNextAvailableKey",
           NoKey)

SwitchToKey(keyIndex) ==
  UserCall(switchToKey(KM, keyIndex, now), "switchToKey", keyIndex)

MarkCurrentAsRateLimited(override) ==
  UserCall(markCurrentAsRateLimited(KM, override, now),
           "markCurrentAsRateLimited", override)

MarkCurrentAsInvalid ==
  UserCall(markCurrentAsInvalid(KM), "markCurrentAsInvalid", NoKey)

AddKey(newKey) == UserCall(addKey(KM, newKey), "addKey", newKey)

RemoveKey(keyIndex) == UserCall(removeKey(KM, keyIndex), "removeKey", keyIndex)

UpdateKeys(newKeys) ==
  UserCall(updateKeys(KM, newKeys, now), "updateKeys", newKeys)

(***************************************************************************)
(* GeminiAgent                                                             *)
(***************************************************************************)
\* the constructor, for AuthType.USE_GEMINI: the active key primes the
\* credential slot; without one the GEMINI_API_KEY option does
NewAgent ==
  /\ Quiescent
  /\ initialized
  /\ q.pc = "none"
  /\ LET r == getActiveKey(KM, now)
     IN /\ r.ok
        /\ Apply(r, "GeminiAgent", NoKey)
        /\ envKey' = IF r.ret # NoKey THEN At(r.keys, r.ret).key
                     ELSE IF store.GEMINI_API_KEY # ""
                     THEN store.GEMINI_API_KEY
                     ELSE envKey
  /\ q' = [q EXCEPT !.pc = "idle"]
  /\ UNCHANGED <<initialized, initCall, now, store, events, calls>>

Accepted == "<accepted>"

\* a retry budget of one more than the pool size
OneMoreThanPool(n) == n + 1

\* keyManager.getAllKeys().length || 1
MaxRetriesFor(n) == IF n = 0 THEN 1 ELSE n

\* the loop condition of submitQuery
LoopContinues(i, maxRetries) == i < maxRetries

\* i < maxRetries - 1: the failure is reported and another key is tried
RetryAllowed(i, maxRetries) == i < maxRetries - 1

\* submitQuery up to its first await: the first sendMessageStream call, with
\* the signal of the AbortController its caller has just created
SubmitQuery ==
  /\ Quiescent
  /\ q.pc = "idle"
  /\ q' = IF LoopContinues(0, MaxRetriesFor(Len(keys)))
          THEN [pc |-> "sending", i |-> 0,
                maxRetries |-> MaxRetriesFor(Len(keys)), lastError |-> "",
                poolSize |-> Len(keys), attempts |-> 1, outcomes |-> <<>>,
                streamed |-> 0, aborted |-> FALSE, used |-> <<envKey>>]
          ELSE [pc |-> "failed", i |-> 0,
                maxRetries |-> MaxRetriesFor(Len(keys)), lastError |-> "",
                poolSize |-> Len(keys), attempts |-> 0, outcomes |-> <<>>,
                streamed |-> 0, aborted |-> FALSE, used |-> <<>>]
  /\ events' = IF LoopContinues(0, MaxRetriesFor(Len(keys))) THEN <<>>
               ELSE <<Event("error", ExhaustedMessage)>>
  /\ op' = Call("submitQuery", NoKey, NoKey, TRUE)
  /\ UNCHANGED <<kmVars, initCall, now, store, persists, envKey, calls>>
  /\ UNCHANGED obsVars

\* sendMessageStream resolves: 'start' is emitted, the stream is handed to
\* handleMessage and submitQuery returns
TransportAccept ==
  /\ Quiescent
  /\ q.pc = "sending"
  /\ q' = [q EXCEPT !.pc = "streaming", !.outcomes = Append(@, Accepted)]
  /\ events' = Append(events, Event("start", ""))
  /\ op' = Call("submitQuery.accepted", NoKey, NoKey, TRUE)
  /\ UNCHANGED <<kmVars, initCall, now, store, persists, envKey, calls>>
  /\ UNCHANGED obsVars

\* the report of a classified failure to the manager
ReportFailure(km, message, t) ==
  IF RateLimitClass[message]
  THEN markCurrentAsRateLimited(km, Undefined, t)
  ELSE markCurrentAsInvalid(km)

Fields(r) ==
  [keys |-> r.keys, refs |-> r.refs, activeKeyIndex |-> r.activeKeyIndex]

CatchResult(r, np, seen, next) ==
  [keys |-> r.keys, refs |-> r.refs, activeKeyIndex |-> r.activeKeyIndex,
   ret |-> r.ret, ok |-> r.ok, persist |-> np, notify |-> np,
   snapshots |-> seen, next |-> next]

\* the catch block of submitQuery for a rejection with the given message:
\* next is "retry" (continue), "break", or "throw" (the block itself throws
\* on e.message.includes when the error carries no message)
submitQueryCatch(km, i, maxRetries, message, t) ==
  IF message = NoMessage
  THEN CatchResult(Unchanged(km, NoKey, FALSE), 0, <<>>, "throw")
  ELSE IF RetryAllowed(i, maxRetries)
  THEN LET reported == ReportFailure(km, message, t)
           switched == switchToNextAvailableKey(Fields(reported), t)
       IN CatchResult(switched, reported.persist + switched.persist,
                      reported.snapshots \o switched.snapshots,
                      IF switched.ret # NoKey THEN "retry" ELSE "break")
  ELSE CatchResult(Unchanged(km, NoKey, FALSE), 0, <<>>, "break")

\* sendMessageStream rejects
TransportReject(message) ==
  /\ Quiescent
  /\ q.pc = "sending"
  /\ LET c == submitQueryCatch(KM, q.i, q.maxRetries, message, now)
     IN /\ Apply(c, "submitQuery.catch", NoKey)
        /\ q' = [q EXCEPT !.lastError = message,
                          !.outcomes = Append(@, message),
                          !.pc = CASE c.next = "retry" -> "refreshing"
                                   [] c.next = "break" -> "failed"
                                   [] OTHER -> "threw"]
        /\ events' =
             CASE c.next = "retry" ->
                    Append(events,
                           Event("info", IF RateLimitClass[message]
                                         THEN RateLimitInfo ELSE InvalidInfo))
               [] c.next = "break" ->
                    Append(events, Event("error", TerminalErrorData(message)))
               [] OTHER -> events
        /\ envKey' = IF c.next = "retry" THEN At(c.keys, c.ret).key
                     ELSE envKey
  /\ UNCHANGED <<initialized, initCall, now, store, calls>>

\* refreshAuth resolves: the next iteration calls sendMessageStream again
RefreshDone ==
  /\ Quiescent
  /\ q.pc = "refreshing"
  /\ q' = IF LoopContinues(q.i + 1, q.maxRetries)
          THEN [q EXCEPT !.pc = "sending", !.i = @ + 1, !.attempts = @ + 1,
                         !.used = Append(@, envKey)]
          ELSE [q EXCEPT !.pc = "failed", !.i = @ + 1]
  /\ events' = IF LoopContinues(q.i + 1, q.maxRetries) THEN events
               ELSE Append(events,
                           Event("error", TerminalErrorData(q.lastError)))
  /\ UNCHANGED <<kmVars, initCall, now, store, persists, envKey, op, calls>>
  /\ UNCHANGED obsVars

\* refreshAuth rejects inside the catch block: submitQuery rejects
RefreshReject ==
  /\ Quiescent
  /\ q.pc = "refreshing"
  /\ q' = [q EXCEPT !.pc = "threw"]
  /\ UNCHANGED <<kmVars, initCall, now, store, persists, envKey, events, op,
                 calls>>
  /\ UNCHANGED obsVars

\* handleMessage forwards one event of the stream
StreamEvent ==
  /\ Quiescent
  /\ q.pc = "streaming"
  /\ q.streamed < MaxStreamEvents
  /\ q' = [q EXCEPT !.streamed = @ + 1]
  /\ events' = Append(events, Event("content", ""))
  /\ UNCHANGED <<kmVars, initCall, now, store, persists, envKey, op, calls>>
  /\ UNCHANGED obsVars

\* an end of stream that emits no 'finish' after a failure
StreamEndWithoutFinishOnFailure(failed) ==
  IF failed THEN <<Event("error", StreamErrorMessage)>>
  ELSE <<Event("finish", "")>>

\* what the end of the stream emits: handleMessage's catch, then the finally
StreamEndEvents(failed) ==
  IF failed THEN <<Event("error", StreamErrorMessage), Event("finish", "")>>
  ELSE <<Event("finish", "")>>

\* the stream ends, or fails ('error' from handleMessage); then 'finish'
StreamEnd(failed) ==
  /\ Quiescent
  /\ q.pc = "streaming"
  /\ q' = [q EXCEPT !.pc = "finished"]
  /\ events' = events \o StreamEndEvents(failed)
  /\ UNCHANGED <<kmVars, initCall, now, store, persists, envKey, op, calls>>
  /\ UNCHANGED obsVars

(***************************************************************************)
(* Specification                                                           *)
(***************************************************************************)
Next ==
  \/ Tick
  \/ \E p \in DOMAIN persists : PersistGet(p)
  \/ \E p \in DOMAIN persists : PersistSet(p)
  \/ InitCall
  \/ InitLoaded
  \/ GetActiveKey
  \/ SwitchToNextAvailableKey
  \/ \E keyIndex \in -1..Len(keys) : SwitchToKey(keyIndex)
  \/ \E override \in Overrides(now) : MarkCurrentAsRateLimited(override)
  \/ MarkCurrentAsInvalid
  \/ \E newKey \in Secrets : AddKey(newKey)
  \/ \E keyIndex \in -1..Len(keys) : RemoveKey(keyIndex)
  \/ \E newKeys \in UpdateInputs : UpdateKeys(newKeys)

\* The manager and its users.
Spec == Init /\ [][Next]_vars

InitAgent == InitWith(InitialConfigs, MaxAgentCalls)

\* a call of another user of the manager while the request is in flight
DuringRequest(A) == q.pc \in {"sending", "refreshing"} /\ A

NextAgent ==
  \/ Tick
  \/ \E p \in DOMAIN persists : PersistGet(p)
  \/ \E p \in DOMAIN persists : PersistSet(p)
  \/ InitCall
  \/ InitLoaded
  \/ NewAgent
  \/ SubmitQuery
  \/ TransportAccept
  \/ \E message \in RejectMessages : TransportReject(message)
  \/ RefreshDone
  \/ RefreshReject
  \/ StreamEvent
  \/ \E failed \in BOOLEAN : StreamEnd(failed)
  \/ DuringRequest(GetActiveKey)
  \/ DuringRequest(SwitchToNextAvailableKey)
  \/ \E keyIndex \in -1..Len(keys) : DuringRequest(SwitchToKey(keyIndex))
  \/ \E override \in Overrides(now) :
       DuringRequest(MarkCurrentAsRateLimited(override))
  \/ DuringRequest(MarkCurrentAsInvalid)
  \/ \E newKey \in Secrets : DuringRequest(AddKey(newKey))
  \/ \E keyIndex \in -1..Len(keys) : DuringRequest(RemoveKey(keyIndex))
  \/ \E newKeys \in UpdateInputs : DuringRequest(UpdateKeys(newKeys))

\* One request of the agent, interleaved with calls of the manager's other
\* users.
SpecAgent == InitAgent /\ [][NextAgent]_vars

(***************************************************************************)
(* The manager's pool at its size limit                                    *)
(***************************************************************************)
PoolConfigs ==
  { Config("", <<"A">>, 0, NoState),
    Config("", <<"A", "B", "C", "D">>, 3, NoState),
    Config("", <<"A", "B", "C", "D", "E">>, 4, NoState),
    Config("", <<"A", "B", "C", "D", "E", "F">>, 5, NoState) }

PoolSecrets == {"A", "B", "C", "D", "E", "F"}

PoolUpdateInputs ==
  { <<>>, <<"F">>, <<"E", "D", "C", "B", "A">>,
    <<"A", "B", "C", "D", "E", "F">> }

InitPool == InitWith(PoolConfigs, MaxCalls)

NextPool ==
  \/ \E p \in DOMAIN persists : PersistGet(p)
  \/ \E p \in DOMAIN persists : PersistSet(p)
  \/ InitCall
  \/ InitLoaded
  \/ \E newKey \in PoolSecrets : AddKey(newKey)
  \/ \E keyIndex \in -1..Len(keys) : RemoveKey(keyIndex)
  \/ \E newKeys \in PoolUpdateInputs : UpdateKeys(newKeys)

\* The pool under add, remove and replace, from configurations of one to six
\* keys: init takes GEMINI_API_KEYS as it finds it.
SpecPool == InitPool /\ [][NextPool]_vars

(***************************************************************************)
(* Properties                                                              *)
(***************************************************************************)
\* a step in which sendMessageStream rejects with a message
RejectionStep ==
  /\ q.pc = "sending"
  /\ Len(q'.outcomes) = Len(q.outcomes) + 1
  /\ q'.outcomes[Len(q'.outcomes)] # Accepted

\* a step that is a call of the named operation by a user of the manager
UserCallStep(name) == calls' = calls - 1 /\ op'.name = name

LastEvent == events[Len(events)]

\* 'error' events other than handleMessage's report of a failed stream
TerminalErrors ==
  {j \in DOMAIN events :
     events[j].type = "error" /\ events[j].data # StreamErrorMessage}

\* C1's scenario at the first rejection: the pool is [keyA(valid),
\* keyB(valid)], two distinct keys, keyA active, and was so at submission
TwoValidKeysFirstAttempt ==
  /\ q.i = 0
  /\ q.poolSize = 2
  /\ Len(keys) = 2
  /\ refs[2] = 2
  /\ activeKeyIndex = 0
  /\ keys[1].status = "valid" /\ keys[1].errorCount = 0
  /\ keys[2].status = "valid"

C1_FirstRejection ==
  (RejectionStep /\ TwoValidKeysFirstAttempt
     /\ Includes(q'.outcomes[1], "429"))
  => /\ keys'[1].status = "rate-limited"
     /\ keys'[1].errorCount = 1
     /\ keys'[1].resetTime = now + 60000
     /\ activeKeyIndex' = 1
     /\ keys'[2].status = "valid"
     /\ envKey' = keys[2].key
     /\ q'.pc = "refreshing"

C1_SecondAccepted ==
  (/\ q.poolSize = 2
   /\ Len(q.outcomes) = 2
   /\ Includes(q.outcomes[1], "429")
   /\ q.outcomes[2] = Accepted)
  => /\ q.attempts = 2
     /\ TerminalErrors = {}
     /\ q.pc = "finished" => LastEvent.type = "finish"

\* C1: with pool [keyA(valid), keyB(valid)] and keyA active, a first
\* rejection whose message contains "429" leaves keyA rate-limited with
\* errorCount 1 and resetTime = time of marking + 60000 ms and makes keyB
\* (index 1) active; when the second call is accepted the transport has been
\* invoked exactly twice, no terminal 'error' is emitted and the request's
\* events end with 'finish'.
C1_RateLimitedThenRetried ==
  [][C1_FirstRejection]_vars /\ [](C1_SecondAccepted)

C1_Witness ==
  /\ q.pc = "finished"
  /\ q.poolSize = 2
  /\ q.outcomes = <<"429 Too Many Requests", Accepted>>
  /\ q.attempts = 2
  /\ Len(keys) = 2
  /\ keys[1].status = "rate-limited" /\ keys[1].errorCount = 1
  /\ activeKeyIndex = 1
  /\ LastEvent.type = "finish"

\* C2: with a pool holding only keyA (valid), a rejection whose message is
\* not of the rate-limit class makes keyA invalid, ends the request after
\* that one transport call and emits exactly one 'error' event carrying the
\* transport's message.
C2_SingleKeyRejected ==
  [][(/\ RejectionStep
      /\ q.poolSize = 1 /\ Len(keys) = 1 /\ activeKeyIndex = 0
      /\ keys[1].status = "valid"
      /\ q'.lastError \notin {"", NoMessage}
      /\ ~RateLimitClass[q'.lastError])
     => /\ keys'[1].status = "invalid"
        /\ q'.pc = "failed"
        /\ q'.attempts = 1
        /\ Cardinality({j \in DOMAIN events' : events'[j].type = "error"}) = 1
        /\ events'[Len(events')] = Event("error", q'.lastError)]_vars

\* C3: for a pool of size >= 2, markCurrentAsRateLimited followed by
\* switchToNextAvailableKey, with some other key valid or rate-limited with
\* an elapsed resetTime, makes a different index active, and the key there is
\* valid.
C3_RotationAfterRateLimit ==
  [][(/\ op.name = "markCurrentAsRateLimited"
      /\ UserCallStep("switchToNextAvailableKey")
      /\ Len(keys) >= 2
      /\ \E p \in DOMAIN keys :
           p # activeKeyIndex + 1 /\ KeyAvailable(keys[p], now))
     => /\ op'.ret = activeKeyIndex'
        /\ activeKeyIndex' # activeKeyIndex
        /\ At(keys', activeKeyIndex').status = "valid"]_vars

\* the last call was a rotation that moved to a valid key at this instant,
\* away from a key marked rate-limited, with the default reset time, at the
\* same instant
C3_Witness ==
  /\ op.name = "switchToNextAvailableKey"
  /\ op.ret = activeKeyIndex
  /\ Len(keys) >= 2
  /\ At(keys, activeKeyIndex).status = "valid"
  /\ At(keys, activeKeyIndex).lastUsed = now
  /\ \E p \in DOMAIN keys :
       /\ p # activeKeyIndex + 1
       /\ keys[p].status = "rate-limited"
       /\ keys[p].errorCount >= 1
       /\ keys[p].resetTime = now + BaseResetTime * keys[p].errorCount

\* C4: a key returned by switchToNextAvailableKey, called directly or by
\* getActiveKey, is valid at return and was valid or rate-limited, never
\* invalid, immediately before the call.
C4_RotationNeverSelectsInvalid ==
  [][((UserCallStep("switchToNextAvailableKey")
         \/ UserCallStep("getActiveKey"))
      /\ op'.ret # NoKey)
     => /\ At(keys', op'.ret).status = "valid"
        /\ At(keys, op'.ret).status \in {"valid", "rate-limited"}
        /\ activeKeyIndex' = op'.ret]_vars

C4_Witness ==
  /\ op.name \in {"switchToNextAvailableKey", "getActiveKey"}
  /\ op.ret = activeKeyIndex
  /\ Len(keys) >= 3
  /\ At(keys, op.ret).status = "valid"
  /\ At(keys, op.ret).lastUsed = now
  /\ \A p \in DOMAIN keys :
        p # op.ret + 1 => keys[p].status = "invalid"

\* C5: a key whose status is invalid stays invalid while its entry remains
\* in the pool: under getActiveKey, switchToNextAvailableKey, switchToKey,
\* markCurrentAsRateLimited and markCurrentAsInvalid the entry at its
\* position is still invalid, and after an updateKeys that keeps its secret
\* every entry with that secret is invalid.
C5_InvalidIsPermanent ==
  [][\A p \in DOMAIN keys :
       keys[p].status = "invalid" =>
         /\ (\E name \in {"getActiveKey", "switchToNextAvailableKey",
                           "switchToKey", "markCurrentAsRateLimited",
                           "markCurrentAsInvalid"} : UserCallStep(name))
            => keys'[p].status = "invalid"
         /\ (UserCallStep("updateKeys") /\ op'.ok
               /\ FindKey(keys, keys[p].key) = p)
            => \A j \in DOMAIN keys' :
                  keys'[j].key = keys[p].key => keys'[j].status = "invalid"
    ]_vars

\* C6: once init has loaded a non-empty pool, 0 <= activeKeyIndex < pool
\* size in every state.
C6_ActiveIndexInRange ==
  (initialized /\ Len(keys) > 0)
  => (0 <= activeKeyIndex /\ activeKeyIndex < Len(keys))

C6_Witness ==
  /\ op.name = "removeKey"
  /\ op.ok
  /\ op.arg <= activeKeyIndex
  /\ activeKeyIndex = Len(keys) - 1
  /\ Len(keys) >= 2

\* C7: once init has populated the pool from a configuration with at least
\* one credential, no operation leaves the pool empty: the pool is empty
\* after a step only if the configuration init loaded had no credential.
C7_PoolNeverEmptied ==
  [][(initialized' /\ Len(keys') = 0)
     => IF initialized THEN Len(keys) = 0
        ELSE Len(ConfiguredKeys(store)) = 0]_vars

C7_Witness ==
  /\ op.name = "removeKey"
  /\ ~op.ok
  /\ op.arg = 0
  /\ Len(keys) = 1

\* C8: the pool never holds more than 5 keys, whatever configuration init
\* loads and whatever addKey and updateKeys calls follow.
C8_PoolAtMostFive == Len(keys) <= MaxKeys

\* C9: one submitQuery call invokes sendMessageStream at most max(1, N)
\* times, N being the pool size when it started.
C9_AttemptsBounded == q.attempts <= Max2(1, q.poolSize)

C9_Witness ==
  /\ q.pc = "failed"
  /\ q.poolSize >= 2
  /\ q.attempts = q.poolSize
  /\ Len(q.outcomes) = q.poolSize

\* C10: every rejection of an attempt is reported to the manager: the key
\* active for the attempt is marked rate-limited or invalid and its
\* errorCount incremented, the last attempt of the retry budget included.
C10_EveryRejectionReported ==
  [][(/\ RejectionStep
      /\ q'.lastError # NoMessage
      /\ InRange(keys, activeKeyIndex))
     => /\ At(keys', activeKeyIndex).errorCount
             = At(keys, activeKeyIndex).errorCount + 1
        /\ At(keys', activeKeyIndex).status
             = IF RateLimitClass[q'.lastError] THEN "rate-limited"
               ELSE "invalid"]_vars

EventsOfType(type) == {j \in DOMAIN events : events[j].type = type}

\* submitQuery came to its end with every attempt rejected: it broke out of
\* the loop, or the loop ran out
EndedWithoutAcceptedAttempt ==
  /\ q.pc = "failed"
  /\ Len(q.outcomes) > 0
  /\ \A j \in DOMAIN q.outcomes : q.outcomes[j] # Accepted

LastRejection == q.outcomes[Len(q.outcomes)]

C11_OneErrorNoStart ==
  /\ Cardinality(EventsOfType("error")) = 1
  /\ LastEvent.type = "error"
  /\ EventsOfType("start") = {}

C11_NothingAfterwards ==
  q.pc = "failed"
  => /\ q'.pc = "failed"
     /\ q'.attempts = q.attempts
     /\ q'.outcomes = q.outcomes
     /\ events' = events

BackoffConfigs ==
  { Config("A", <<>>, 0, NoState),
    Config("", <<"A", "B">>, 1, NoState) }

InitBackoff == InitWith(BackoffConfigs, MaxMarks)

NextBackoff ==
  \/ Tick
  \/ \E p \in DOMAIN persists : PersistGet(p)
  \/ \E p \in DOMAIN persists : PersistSet(p)
  \/ InitCall
  \/ InitLoaded
  \/ \E override \in Overrides(now) : MarkCurrentAsRateLimited(override)
  \/ GetActiveKey

\* Up to MaxMarks calls that mark the active key or ask for it, as the clock
\* advances.
SpecBackoff == InitBackoff /\ [][NextBackoff]_vars

\* C12: for k = 1..10, a markCurrentAsRateLimited call without override that
\* finds the active key with errorCount k - 1 (the k-th in a row since the
\* count was 0) leaves it rate-limited with errorCount k and resetTime = time
\* of the call + 60000 * min(k, 5).
C12_BackoffLadder ==
  [][\A k \in 1..10 :
       (/\ UserCallStep("markCurrentAsRateLimited")
        /\ op'.arg = Undefined
        /\ InRange(keys, activeKeyIndex)
        /\ At(keys, activeKeyIndex).errorCount = k - 1)
       => /\ activeKeyIndex' = activeKeyIndex
          /\ At(keys', activeKeyIndex).status = "rate-limited"
          /\ At(keys', activeKeyIndex).errorCount = k
          /\ At(keys', activeKeyIndex).resetTime
               = now + 60000 * (IF k <= 5 THEN k ELSE 5)]_vars

\* ten marks without override in a row, the clock having advanced between
\* some of them
C12_Witness ==
  /\ op.name = "markCurrentAsRateLimited"
  /\ op.arg = Undefined
  /\ calls = MaxMarks - 10
  /\ now > StartTime
  /\ At(keys, activeKeyIndex).status = "rate-limited"
  /\ At(keys, activeKeyIndex).errorCount = 10
  /\ At(keys, activeKeyIndex).resetTime = now + 300000

\* the key at ring offset j from the active index
Candidate(j) == At(keys, (activeKeyIndex + 1 + j) % Len(keys))

\* rate-limited with a resetTime strictly in the past
Expired(k) == k.status = "rate-limited" /\ OrZero(k.resetTime) < now

\* the ring offsets whose key is valid or expired, and the first of them
QualifyingOffsets ==
  {j \in 0..(Len(keys) - 1) :
     Candidate(j).status = "valid" \/ Expired(Candidate(j))}

FirstExpiredCandidate(j) ==
  /\ j \in QualifyingOffsets
  /\ \A i \in QualifyingOffsets : j <= i
  /\ Expired(Candidate(j))

\* C13: when switchToNextAvailableKey runs and the first qualifying candidate
\* in ring order is a rate-limited key whose resetTime is strictly in the
\* past, that key becomes valid with resetTime cleared and errorCount 0, is
\* made active and is returned; a rate-limited key whose resetTime has not
\* passed keeps its fields and is not the key returned.
C13_ExpiredKeyResurrected ==
  [][UserCallStep("switchToNextAvailableKey")
     => /\ \A j \in 0..(Len(keys) - 1) :
             FirstExpiredCandidate(j)
             => LET index == (activeKeyIndex + 1 + j) % Len(keys)
                IN /\ op'.ret = index
                   /\ op'.ok
                   /\ activeKeyIndex' = index
                   /\ At(keys', index).key = At(keys, index).key
                   /\ At(keys', index).status = "valid"
                   /\ At(keys', index).resetTime = Undefined
                   /\ At(keys', index).errorCount = 0
        /\ \A p \in DOMAIN keys :
             (keys[p].status = "rate-limited" /\ ~Expired(keys[p]))
             => /\ keys'[p] = keys[p]
                /\ op'.ret # p - 1]_vars

\* a rotation that passed over a key still cooling down and returned a key
\* that was rate-limited until this call
C13_Witness ==
  /\ op.name = "switchToNextAvailableKey"
  /\ op.ret = activeKeyIndex
  /\ Len(keys) >= 2
  /\ At(keys, op.ret).status = "valid"
  /\ At(keys, op.ret).errorCount = 0
  /\ At(keys, op.ret).resetTime = Undefined
  /\ At(keys, op.ret).lastUsed = now
  /\ persists # <<>>
  /\ persists[1].phase = "get"
  /\ store.keyManagerState.present
  /\ \E p \in DOMAIN store.keyManagerState.keys :
       /\ store.keyManagerState.keys[p].key = At(keys, op.ret).key
       /\ store.keyManagerState.keys[p].status = "rate-limited"
       /\ store.keyManagerState.keys[p].resetTime < now
  /\ \E p \in DOMAIN keys :
       /\ p # op.ret + 1
       /\ keys[p].status = "rate-limited"
       /\ keys[p].resetTime >= now

(***************************************************************************)
(* A new process: a fresh manager over the stored configuration            *)
(***************************************************************************)
\* the application starts again once every write of the old process is done:
\* the manager's fields are their initialisers, the store is what was written
Restart ==
  /\ Quiescent
  /\ initialized
  /\ keys' = <<>>
  /\ refs' = <<>>
  /\ activeKeyIndex' = 0
  /\ initialized' = FALSE
  /\ initCall' = "none"
  /\ op' = NoCall
  /\ onStatusChangeCallback' = NoObserver
  /\ notifications' = <<>>
  /\ UNCHANGED <<now, store, persists, envKey, q, events, calls>>

NextRestart ==
  \/ Tick
  \/ \E p \in DOMAIN persists : PersistGet(p)
  \/ \E p \in DOMAIN persists : PersistSet(p)
  \/ InitCall
  \/ InitLoaded
  \/ Restart
  \/ GetActiveKey
  \/ SwitchToNextAvailableKey
  \/ \E keyIndex \in -1..Len(keys) : SwitchToKey(keyIndex)
  \/ \E override \in Overrides(now) : MarkCurrentAsRateLimited(override)
  \/ MarkCurrentAsInvalid
  \/ \E keyIndex \in -1..Len(keys) : RemoveKey(keyIndex)
  \/ \E newKeys \in UpdateInputs : UpdateKeys(newKeys)

\* The manager across restarts of the process.
SpecRestart == Init /\ [][NextRestart]_vars

\* the status, resetTime and errorCount of a key record
Health(k) ==
  [status |-> k.status, resetTime |-> k.resetTime, errorCount |-> k.errorCount]

\* with every write done, the stored record holds the pool as it is
StoredIsCurrent ==
  (initialized /\ Quiescent /\ initCall = "done")
  => /\ store.keyManagerState.present
     /\ Len(store.keyManagerState.keys) = Len(keys)
     /\ \A p \in DOMAIN keys :
          /\ store.keyManagerState.keys[p].key = keys[p].key
          /\ Health(store.keyManagerState.keys[p]) = Health(keys[p])

\* init of a fresh manager completes in this step
FreshInitCompletes == ~initialized /\ initialized'

\* the stored record of the first stored key with the secret
StoredKey(secret) ==
  store.keyManagerState.keys[FindKey(store.keyManagerState.keys, secret)]

Matched(secret) ==
  /\ store.keyManagerState.present
  /\ FindKey(store.keyManagerState.keys, secret) # 0

\* stored as rate-limited with a resetTime that has passed when init runs
StoredExpired(secret) ==
  /\ StoredKey(secret).status = "rate-limited"
  /\ StoredKey(secret).resetTime # Undefined
  /\ StoredKey(secret).resetTime < now

\* C14 as stated: a fresh manager that runs init against the record a manager
\* stored ends with, for every key matched by secret, the status, resetTime
\* and errorCount the storing manager had.
C14_RoundTrip ==
  /\ [](StoredIsCurrent)
  /\ [][FreshInitCompletes
        => \A p \in DOMAIN keys' :
             Matched(keys'[p].key)
             => Health(keys'[p]) = Health(StoredKey(keys'[p].key))]_vars

\* C14, amended: the same for every matched key except those stored as
\* rate-limited with a resetTime that has passed when init runs, which come
\* back valid with resetTime cleared and errorCount 0.
C14_RoundTripUnlessExpired ==
  /\ [](StoredIsCurrent)
  /\ [][FreshInitCompletes
        => /\ [p \in DOMAIN keys' |-> keys'[p].key] = ConfiguredKeys(store)
           /\ \A p \in DOMAIN keys' :
                Matched(keys'[p].key)
                => Health(keys'[p])
                        = IF StoredExpired(keys'[p].key)
                          THEN [status |-> "valid", resetTime |-> Undefined,
                                errorCount |-> 0]
                          ELSE Health(StoredKey(keys'[p].key))]_vars

\* a restarted manager has loaded a key that is invalid and one that is still
\* cooling down with the errorCount it had, none of them reset to fresh
C14_Witness ==
  /\ initialized
  /\ op.name = "init"
  /\ calls < MaxCalls
  /\ persists # <<>>
  /\ \E p \in DOMAIN keys :
       keys[p].status = "invalid" /\ keys[p].errorCount >= 1
  /\ \E p \in DOMAIN keys :
       /\ keys[p].status = "rate-limited"
       /\ keys[p].errorCount >= 1
       /\ keys[p].resetTime >= now

\* C15: addKey(secret) returns false, leaves the pool and activeKeyIndex as
\* they were, notifies nobody and starts no write when the pool has 5 entries
\* or holds the secret already; otherwise it returns true and the pool is the
\* old pool followed by one entry with that secret, status valid and
\* errorCount 0, with activeKeyIndex as it was.
C15_AddKey ==
  [][UserCallStep("addKey")
     => IF Len(keys) >= 5 \/ \E p \in DOMAIN keys : keys[p].key = op'.arg
        THEN /\ ~op'.ok
             /\ keys' = keys
             /\ activeKeyIndex' = activeKeyIndex
             /\ op'.notify = 0
             /\ persists' = persists
        ELSE /\ op'.ok
             /\ Len(keys') = Len(keys) + 1
             /\ SubSeq(keys', 1, Len(keys)) = keys
             /\ keys'[Len(keys')].key = op'.arg
             /\ keys'[Len(keys')].status = "valid"
             /\ keys'[Len(keys')].errorCount = 0
             /\ activeKeyIndex' = activeKeyIndex
             /\ op'.notify = 1]_vars

\* the fifth key was just added to a pool whose last key was active
C15_Witness ==
  /\ op.name = "addKey"
  /\ op.ok
  /\ Len(keys) = 5
  /\ keys[5].key = op.arg
  /\ keys[5].status = "valid"
  /\ activeKeyIndex = 3
  /\ persists # <<>>

\* C16: removeKey(i) on a pool of one key, or with i outside 0..size-1,
\* returns false and leaves the pool, every key's fields and activeKeyIndex
\* unchanged.
C16_RemoveKeyRejected ==
  [][(/\ UserCallStep("removeKey")
      /\ (Len(keys) = 1 \/ op'.arg < 0 \/ op'.arg >= Len(keys)))
     => /\ ~op'.ok
        /\ keys' = keys
        /\ refs' = refs
        /\ activeKeyIndex' = activeKeyIndex
        /\ op'.notify = 0
        /\ persists' = persists]_vars

\* a removal at the index one past the end was refused in a pool that holds a
\* key that is not fresh
C16_Witness ==
  /\ op.name = "removeKey"
  /\ ~op.ok
  /\ Len(keys) >= 2
  /\ op.arg = Len(keys)
  /\ \E p \in DOMAIN keys : keys[p].status # "valid" /\ keys[p].errorCount >= 1

\* C17: after a successful removeKey(i) the pool is the old pool without
\* entry i, in the old order, and activeKeyIndex is max(0, old - 1) when
\* i <= old activeKeyIndex and unchanged when i > old activeKeyIndex.
C17_RemoveKeyShiftsActiveIndex ==
  [][(UserCallStep("removeKey") /\ op'.ok)
     => /\ 0 <= op'.arg /\ op'.arg < Len(keys)
        /\ Len(keys') = Len(keys) - 1
        /\ \A p \in DOMAIN keys' :
             keys'[p] = IF p <= op'.arg THEN keys[p] ELSE keys[p + 1]
        /\ activeKeyIndex'
             = IF op'.arg <= activeKeyIndex
               THEN (IF activeKeyIndex - 1 > 0 THEN activeKeyIndex - 1 ELSE 0)
               ELSE activeKeyIndex]_vars

\* the last of three keys was removed while the middle one was active
C17_Witness ==
  /\ op.name = "removeKey"
  /\ op.ok
  /\ op.arg = 2
  /\ Len(keys) = 2
  /\ activeKeyIndex = 1
  /\ persists # <<>>

(***************************************************************************)
(* init called again, and the settings panel writing the configuration     *)
(***************************************************************************)
\* a later call of init, after one has completed
LaterInitCall ==
  /\ Quiescent
  /\ initCall = "done"
  /\ initCall' = InitEntry(initialized)
  /\ op' = Call("init", NoKey, NoKey, TRUE)
  /\ UNCHANGED <<kmVars, now, store, persists, envKey, q, events, calls>>
  /\ UNCHANGED obsVars

\* key lists and active indices the settings form submits
SettingsInputs ==
  { <<<<"C">>, 0>>, <<<<"B", "A">>, 1>>, <<<<"A", "B", "C">>, 2>> }

\* the settings form is submitted: its values replace the stored record,
\* without the legacy key, with or without the keyManagerState it was loaded
\* with
SettingsSave(newKeys, activeIndex, keepState) ==
  /\ Quiescent
  /\ initialized
  /\ store' = Config("", newKeys, activeIndex,
                     IF keepState /\ store.present THEN store.keyManagerState
                     ELSE NoState)
  /\ op' = Call("settings.save", Len(newKeys), NoKey, TRUE)
  /\ UNCHANGED <<kmVars, initCall, now, persists, envKey, q, events, calls>>
  /\ UNCHANGED obsVars

NextReinit ==
  \/ Tick
  \/ \E p \in DOMAIN persists : PersistGet(p)
  \/ \E p \in DOMAIN persists : PersistSet(p)
  \/ InitCall
  \/ InitLoaded
  \/ LaterInitCall
  \/ \E input \in SettingsInputs, keepState \in BOOLEAN :
       SettingsSave(input[1], input[2], keepState)
  \/ GetActiveKey
  \/ SwitchToNextAvailableKey
  \/ \E override \in Overrides(now) : MarkCurrentAsRateLimited(override)
  \/ MarkCurrentAsInvalid

\* The manager with init called repeatedly while the stored configuration
\* is rewritten.
SpecReinit == Init /\ [][NextReinit]_vars

\* a step of an init call
InitStep == initCall' # initCall \/ (op' # op /\ op'.name = "init")

\* C18: once an init call has completed, a later init call changes neither
\* the pool, any key's fields, the activeKeyIndex nor the stored record, and
\* starts no write, whatever the stored configuration has become.
C18_InitIdempotent ==
  [][(initialized /\ InitStep)
     => /\ keys' = keys
        /\ refs' = refs
        /\ activeKeyIndex' = activeKeyIndex
        /\ initialized'
        /\ store' = store
        /\ persists' = persists
        /\ initCall' = "done"]_vars

\* init was the last call, made after the settings panel had replaced the
\* stored key list by another one, and the pool still holds a key that is
\* not valid
C18_Witness ==
  /\ op.name = "init"
  /\ initialized
  /\ initCall = "done"
  /\ Quiescent
  /\ store.GEMINI_API_KEYS # [p \in DOMAIN keys |-> keys[p].key]
  /\ ~store.keyManagerState.present
  /\ \E p \in DOMAIN keys : keys[p].status # "valid"

(***************************************************************************)
(* getAllKeys and what its caller does with the array returned             *)
(***************************************************************************)
\* [...this.keys]: a new array whose elements are the pool's own key
\* records; ret lists, per element, the pool position of the record it shares
getAllKeys(km) ==
  [Unchanged(km, NoKey, TRUE) EXCEPT
     !.ret = [p \in DOMAIN km.keys |-> [shared |-> TRUE, position |-> p]]]

GetAllKeys == UserCall(getAllKeys(KM), "getAllKeys", NoKey)

\* the caller still holds the array returned by the last call
HoldsReturnedArray ==
  op.name \in {"getAllKeys", "returned.write", "returned.splice"}

\* the caller assigns the status of element j of the array
CallerWritesRecord(j, status) ==
  /\ Quiescent
  /\ HoldsReturnedArray
  /\ j \in DOMAIN op.ret
  /\ keys' = IF op.ret[j].shared
             THEN WriteKey(keys, refs, op.ret[j].position - 1,
                           [keys[op.ret[j].position] EXCEPT !.status = status])
             ELSE keys
  /\ op' = [op EXCEPT !.name = "returned.write", !.arg = j]
  /\ UNCHANGED <<refs, activeKeyIndex, initialized, initCall, now, store,
                 persists, envKey, q, events, calls>>
  /\ UNCHANGED obsVars

\* the caller removes element j from the array
CallerSplicesArray(j) ==
  /\ Quiescent
  /\ HoldsReturnedArray
  /\ j \in DOMAIN op.ret
  /\ op' = [op EXCEPT !.name = "returned.splice", !.arg = j,
                      !.ret = RemoveAt(op.ret, j)]
  /\ UNCHANGED <<kmVars, initCall, now, store, persists, envKey, q, events,
                 calls>>
  /\ UNCHANGED obsVars

NextView ==
  \/ Tick
  \/ \E p \in DOMAIN persists : PersistGet(p)
  \/ \E p \in DOMAIN persists : PersistSet(p)
  \/ InitCall
  \/ InitLoaded
  \/ GetAllKeys
  \/ \E j \in 1..MaxKeys, status \in {"valid", "rate-limited", "invalid"} :
       CallerWritesRecord(j, status)
  \/ \E j \in 1..MaxKeys : CallerSplicesArray(j)
  \/ \E override \in Overrides(now) : MarkCurrentAsRateLimited(override)
  \/ MarkCurrentAsInvalid

\* The manager and a caller that changes what getAllKeys returned.
SpecView == Init /\ [][NextView]_vars

\* a step in which the caller changes the returned array or a record in it
CallerMutationStep ==
  /\ op'.name \in {"returned.write", "returned.splice"}
  /\ HoldsReturnedArray
  /\ now' = now
  /\ persists' = persists

\* C19: no change a caller makes to the value getAllKeys returned, to the
\* list or to a key record in it, changes the manager's pool or any key's
\* status, resetTime, lastUsed or errorCount.
C19_GetAllKeysDefensiveCopy ==
  [][CallerMutationStep
     => /\ keys' = keys
        /\ refs' = refs
        /\ activeKeyIndex' = activeKeyIndex]_vars

(***************************************************************************)
(* persistState when the store fails                                       *)
(***************************************************************************)
\* a persistState that lets the store's error reach the awaiting call
PersistFailureRethrown(call) == [call EXCEPT !.ok = FALSE]

\* catch (error) { console.error(...) }: the call that awaits persistState
\* sees it resolve, whatever the store did
PersistFailureOutcome(call) == call

\* ConfigStorage.get or ConfigStorage.set rejects inside persistState
PersistFail(p) ==
  /\ persists' = RemoveAt(persists, p)
  /\ op' = PersistFailureOutcome(op)
  /\ UNCHANGED <<kmVars, initCall, now, store, envKey, q, events, calls>>
  /\ UNCHANGED obsVars

NextPersistFail ==
  \/ \E p \in DOMAIN persists : PersistGet(p)
  \/ \E p \in DOMAIN persists : PersistSet(p)
  \/ \E p \in DOMAIN persists : PersistFail(p)
  \/ InitCall
  \/ InitLoaded
  \/ SwitchToNextAvailableKey
  \/ \E keyIndex \in -1..Len(keys) : SwitchToKey(keyIndex)
  \/ \E override \in Overrides(now) : MarkCurrentAsRateLimited(override)
  \/ MarkCurrentAsInvalid
  \/ \E newKey \in Secrets : AddKey(newKey)
  \/ \E keyIndex \in -1..Len(keys) : RemoveKey(keyIndex)
  \/ \E newKeys \in UpdateInputs : UpdateKeys(newKeys)

\* The manager's mutating operations over a store whose reads and writes
\* may fail.
SpecPersistFail == Init /\ [][NextPersistFail]_vars

\* a persistState call comes to its end in this step, by a completed write or
\* by a failure of the store
PersistEnds == Len(persists') < Len(persists)

\* C20: a failure of the store's get or set during persistState does not
\* reach the caller of the mutating operation: at the end of every
\* persistState call, failed or not, the operation's result is what it
\* returned and the pool and activeKeyIndex hold its effect.
C20_PersistFailureContained ==
  [][PersistEnds
     => /\ op' = op
        /\ keys' = keys
        /\ refs' = refs
        /\ activeKeyIndex' = activeKeyIndex
        /\ initialized' = initialized]_vars

\* after a successful markCurrentAsInvalid every write is over, and the
\* stored record still shows the key as it was before: the write failed
C20_Witness ==
  /\ op.name = "markCurrentAsInvalid"
  /\ op.ok
  /\ Quiescent
  /\ InRange(keys, activeKeyIndex)
  /\ At(keys, activeKeyIndex).status = "invalid"
  /\ store.keyManagerState.present
  /\ Len(store.keyManagerState.keys) = Len(keys)
  /\ At(store.keyManagerState.keys, activeKeyIndex).key
       = At(keys, activeKeyIndex).key
  /\ At(store.keyManagerState.keys, activeKeyIndex).status = "valid"

(***************************************************************************)
(* Persistence of successive mutations                                     *)
(***************************************************************************)
\* C21: no mutation of the manager starts while the persistState call of the
\* previous mutation is still in flight: at most one persistState call is
\* pending at any time.
C21_MutationAwaitsPreviousPersist == Len(persists) <= 1

(***************************************************************************)
(* Status views: KeyManager.getKeyStatuses and GeminiAgent.getKeyStatuses  *)
(***************************************************************************)
\* an index clamped into 0..len, as String.prototype.substring does
ClampIndex(n, len) == Max2(0, Min2(n, len))

\* s.substring(start, end)
substring(s, start, end) ==
  LET a == ClampIndex(start, Len(s))
      b == ClampIndex(end, Len(s))
  IN SubSeq(s, Min2(a, b) + 1, Max2(a, b))

MaskPrefixLen == 8
MaskSuffixLen == 4
Ellipsis == "..."

\* a mask that shows one more character of the middle
MaskWithLongerPrefix(secret) ==
  substring(secret, 0, MaskPrefixLen + 1) \o Ellipsis
    \o substring(secret, Len(secret) - MaskSuffixLen, Len(secret))

\* key.substring(0, 8) + "..." + key.substring(key.length - 4)
MaskKey(secret) ==
  substring(secret, 0, MaskPrefixLen) \o Ellipsis
    \o substring(secret, Len(secret) - MaskSuffixLen, Len(secret))

\* resetTime ? Math.max(0, resetTime - Date.now()) : undefined
TimeUntilReset(resetTime, t) ==
  IF Truthy(resetTime) THEN Max2(0, resetTime - t) ELSE Undefined

\* KeyManager.getKeyStatuses: one record per key, the secret masked
getKeyStatuses(km, t) ==
  [Unchanged(km, NoKey, TRUE) EXCEPT
     !.ret = [p \in DOMAIN km.keys |->
                [key |-> MaskKey(km.keys[p].key),
                 status |-> km.keys[p].status,
                 resetTime |-> km.keys[p].resetTime,
                 timeUntilReset |-> TimeUntilReset(km.keys[p].resetTime, t),
                 isActive |-> (p - 1 = km.activeKeyIndex)]]]

\* GeminiAgent.getKeyStatuses: keyManager.getAllKeys() || [], whose elements
\* are the pool's key records
agentGetKeyStatuses(km) ==
  [getAllKeys(km) EXCEPT
     !.ret = [p \in DOMAIN @ |-> km.keys[@[p].position]]]

GetKeyStatuses == UserCall(getKeyStatuses(KM, now), "getKeyStatuses", NoKey)

AgentGetKeyStatuses ==
  UserCall(agentGetKeyStatuses(KM), "GeminiAgent.getKeyStatuses", NoKey)

\* secrets longer than 12 characters: a prefix of 8, a middle, a suffix of 4
LongSecrets ==
  {a \o m \o "wxyz" : a \in {"AIzaSyA1", "AIzaSyB2"},
                       m \in {"m", "MIDDLE", "8wxy"}}
\* secrets of 1, 8, 9 and 12 characters
ShortSecrets == {"k", "12345678", "123456789", "123456789012"}

MaskConfigs ==
  { Config("", <<a, b>>, 0, NoState) :
      a \in LongSecrets, b \in LongSecrets \cup ShortSecrets }

InitMask == InitWith(MaskConfigs, MaxCalls)

NextMask ==
  \/ Tick
  \/ \E p \in DOMAIN persists : PersistGet(p)
  \/ \E p \in DOMAIN persists : PersistSet(p)
  \/ InitCall
  \/ InitLoaded
  \/ GetKeyStatuses
  \/ AgentGetKeyStatuses
  \/ MarkCurrentAsRateLimited(Undefined)
  \/ SwitchToNextAvailableKey

\* The manager over pools of long and short secrets, and its status views.
SpecMask == InitMask /\ [][NextMask]_vars

\* the middle portion of a secret: positions 9 to length - 4
Middle(secret) ==
  SubSeq(secret, MaskPrefixLen + 1, Len(secret) - MaskSuffixLen)

\* secrets that differ at most in their middle portion
SameEnds(s1, s2) ==
  /\ SubSeq(s1, 1, MaskPrefixLen) = SubSeq(s2, 1, MaskPrefixLen)
  /\ SubSeq(s1, Len(s1) - MaskSuffixLen + 1, Len(s1))
       = SubSeq(s2, Len(s2) - MaskSuffixLen + 1, Len(s2))

\* C22: for every secret longer than 12 characters the masked form in the
\* view of getKeyStatuses is the first 8 characters, "...", and the last 4
\* characters of the secret, 15 characters in all, and it is the same for
\* every secret with those first 8 and last 4 characters: nothing of the
\* middle portion enters it.
C22_MaskedForm ==
  op.name = "getKeyStatuses" =>
    \A p \in DOMAIN keys :
      LET secret == keys[p].key
          masked == op.ret[p].key
      IN Len(secret) > MaskPrefixLen + MaskSuffixLen =>
           /\ masked = SubSeq(secret, 1, MaskPrefixLen) \o Ellipsis
                         \o SubSeq(secret, Len(secret) - MaskSuffixLen + 1,
                                   Len(secret))
           /\ Len(masked) = MaskPrefixLen + Len(Ellipsis) + MaskSuffixLen
           /\ \A other \in LongSecrets :
                SameEnds(secret, other) => masked = MaskKey(other)

C22_Witness ==
  /\ op.name = "getKeyStatuses"
  /\ Len(keys) = 2
  /\ Len(Middle(keys[1].key)) = 6
  /\ Len(Middle(keys[2].key)) = 1
  /\ SameEnds(keys[1].key, keys[2].key)
  /\ op.ret[1].key = op.ret[2].key
  /\ op.ret[1].key = "AIzaSyA1...wxyz"

\* C23: no status view handed to the administrative side, by
\* KeyManager.getKeyStatuses or by GeminiAgent.getKeyStatuses, holds a key
\* field in which a complete secret of the pool can be read.
C23_NoRawSecretInStatusView ==
  op.name \in {"getKeyStatuses", "GeminiAgent.getKeyStatuses"} =>
    \A p \in DOMAIN op.ret, k \in DOMAIN keys :
      ~Includes(op.ret[p].key, keys[k].key)

(***************************************************************************)
(* switchToKey                                                             *)
(***************************************************************************)
\* the key at index i can be switched to: it is valid, or rate-limited with
\* its resetTime strictly in the past
SwitchTargetUsable(i) ==
  /\ i >= 0
  /\ i < Len(keys)
  /\ \/ At(keys, i).status = "valid"
     \/ Expired(At(keys, i))

\* C24: switchToKey(i) returns true exactly when i is in range and key i is
\* valid or rate-limited with an elapsed resetTime; on true key i is active
\* and valid, and a key that was rate-limited has resetTime cleared and
\* errorCount 0; on false neither activeKeyIndex nor any key has changed.
C24_SwitchToKey ==
  [][UserCallStep("switchToKey")
     => LET i == op'.arg
        IN /\ op'.ok <=> SwitchTargetUsable(i)
           /\ op'.ok =>
                /\ activeKeyIndex' = i
                /\ Len(keys') = Len(keys)
                /\ At(keys', i).key = At(keys, i).key
                /\ At(keys', i).status = "valid"
                /\ At(keys, i).status = "rate-limited" =>
                     /\ At(keys', i).resetTime = Undefined
                     /\ At(keys', i).errorCount = 0
           /\ ~op'.ok =>
                /\ activeKeyIndex' = activeKeyIndex
                /\ keys' = keys]_vars

\* a switch accepted for a key the store still shows as rate-limited with a
\* passed resetTime and a positive error count
C24_Witness ==
  /\ op.name = "switchToKey"
  /\ op.ok
  /\ op.arg = activeKeyIndex
  /\ InRange(keys, op.arg)
  /\ At(keys, op.arg).status = "valid"
  /\ At(keys, op.arg).resetTime = Undefined
  /\ At(keys, op.arg).errorCount = 0
  /\ At(keys, op.arg).lastUsed = now
  /\ persists # <<>>
  /\ store.keyManagerState.present
  /\ Len(store.keyManagerState.keys) = Len(keys)
  /\ At(store.keyManagerState.keys, op.arg).key = At(keys, op.arg).key
  /\ At(store.keyManagerState.keys, op.arg).status = "rate-limited"
  /\ At(store.keyManagerState.keys, op.arg).resetTime < now
  /\ At(store.keyManagerState.keys, op.arg).errorCount > 0

(***************************************************************************)
(* updateKeys                                                              *)
(***************************************************************************)
\* C25: updateKeys with an empty list or more than 5 secrets fails and
\* leaves the pool, activeKeyIndex and the stored record as they were, with
\* no persistState call started; an accepted updateKeys leaves a pool whose
\* secrets are the new list in its order, with activeKeyIndex in range: 0
\* when the old index is out of bounds, else unchanged.
C25_UpdateKeys ==
  [][UserCallStep("updateKeys")
     => LET newKeys == op'.arg
        IN IF Len(newKeys) = 0 \/ Len(newKeys) > 5
           THEN /\ ~op'.ok
                /\ keys' = keys
                /\ activeKeyIndex' = activeKeyIndex
                /\ store' = store
                /\ persists' = persists
           ELSE /\ op'.ok
                /\ [p \in DOMAIN keys' |-> keys'[p].key] = newKeys
                /\ activeKeyIndex' >= 0
                /\ activeKeyIndex' < Len(keys')
                /\ activeKeyIndex' = IF activeKeyIndex >= Len(newKeys) THEN 0
                                     ELSE activeKeyIndex]_vars

\* a pool of six keys with the last one active replaced by five keys
C25_Witness ==
  /\ op.name = "updateKeys"
  /\ op.ok
  /\ Len(op.arg) = 5
  /\ Len(keys) = 5
  /\ activeKeyIndex = 0
  /\ persists # <<>>
  /\ Len(store.GEMINI_API_KEYS) = 6
  /\ store.activeKeyIndex = 5
  /\ store.keyManagerState.present
  /\ store.keyManagerState.activeKeyIndex = 5

(***************************************************************************)
(* The status observer                                                     *)
(***************************************************************************)
Observers == {"first", "second"}

\* onStatusChange(callback): the callback replaces the one registered
OnStatusChange(callback) ==
  /\ Quiescent
  /\ onStatusChangeCallback # callback
  /\ onStatusChangeCallback' = callback
  /\ op' = Call("onStatusChange", callback, NoKey, TRUE)
  /\ UNCHANGED <<kmVars, initCall, now, store, persists, envKey, q, events,
                 calls, notifications>>

\* from the stored pools whose keys are valid, invalid, cooling down or past
\* their cooldown
InitObserver ==
  InitWith({c \in InitialConfigs : c.present /\ c.keyManagerState.present},
           MaxCalls)

NextObserver ==
  \/ \E p \in DOMAIN persists : PersistGet(p)
  \/ \E p \in DOMAIN persists : PersistSet(p)
  \/ InitCall
  \/ InitLoaded
  \/ \E callback \in Observers : OnStatusChange(callback)
  \/ GetActiveKey
  \/ SwitchToNextAvailableKey
  \/ \E keyIndex \in -1..Len(keys) : SwitchToKey(keyIndex)
  \/ \E override \in {Undefined, now - TickMs} :
       MarkCurrentAsRateLimited(override)
  \/ MarkCurrentAsInvalid
  \/ \E newKey \in {"A", "C"} : AddKey(newKey)
  \/ \E keyIndex \in -1..Len(keys) : RemoveKey(keyIndex)
  \/ \E newKeys \in {<<>>, <<"B", "A">>} : UpdateKeys(newKeys)

\* The manager, its users, and observers that register one after another.
SpecObserver == InitObserver /\ [][NextObserver]_vars

\* a step that is a call of a state-mutating operation that succeeds
MutationSucceeds ==
  /\ calls' = calls - 1
  /\ \/ /\ op'.name \in {"switchToKey", "addKey", "removeKey", "updateKeys"}
        /\ op'.ok
     \/ /\ op'.name = "switchToNextAvailableKey"
        /\ op'.ret # NoKey
     \/ /\ op'.name = "getActiveKey"
        /\ op'.ret # NoKey
        /\ At(keys, activeKeyIndex).status # "valid"
     \/ /\ op'.name \in {"markCurrentAsRateLimited", "markCurrentAsInvalid"}
        /\ InRange(keys, activeKeyIndex)

\* the invocations made in this step
NewNotifications ==
  SubSeq(notifications', Len(notifications) + 1, Len(notifications'))

\* C26: every succeeding mutation (a rotation, switchToKey, a mark, addKey,
\* removeKey, updateKeys) invokes the observer registered at that moment
\* with the pool and active index the operation leaves; no step invokes an
\* observer other than the one registered, so a replaced observer is never
\* invoked again.
C26_ObserverNotified ==
  [][/\ SubSeq(notifications', 1, Len(notifications)) = notifications
     /\ \A j \in DOMAIN NewNotifications :
          /\ NewNotifications[j].observer = onStatusChangeCallback
          /\ NewNotifications[j].observer \in Observers
     /\ (MutationSucceeds /\ onStatusChangeCallback # NoObserver)
        => /\ NewNotifications # <<>>
           /\ NewNotifications[Len(NewNotifications)]
                = [observer |-> onStatusChangeCallback, keys |-> keys',
                   activeKeyIndex |-> activeKeyIndex']]_vars

\* the first observer was invoked, then replaced, and a removal that moved
\* the active index was reported to the second observer only
C26_Witness ==
  /\ op.name = "removeKey"
  /\ op.ok
  /\ onStatusChangeCallback = "second"
  /\ Len(notifications) = 2
  /\ notifications[1].observer = "first"
  /\ notifications[2].observer = "second"
  /\ notifications[2].keys = keys
  /\ notifications[2].activeKeyIndex = activeKeyIndex
  /\ notifications[1].activeKeyIndex # activeKeyIndex

(***************************************************************************)
(* Cancellation: GeminiAgent.stop                                          *)
(***************************************************************************)
\* stop(): this.abortController?.abort()
Stop ==
  /\ Quiescent
  /\ q.pc # "none"
  /\ ~q.aborted
  /\ q' = [q EXCEPT !.aborted = TRUE]
  /\ op' = Call("stop", NoKey, NoKey, TRUE)
  /\ UNCHANGED <<kmVars, initCall, now, store, persists, envKey, events,
                 calls, onStatusChangeCallback, notifications>>

\* sendMessageStream, holding the aborted signal, gives up: the pending call
\* rejects with the abort error and submitQuery's catch block handles it
TransportAborted == q.aborted /\ TransportReject(AbortMessage)

NextRequest ==
  \/ Tick
  \/ \E p \in DOMAIN persists : PersistGet(p)
  \/ \E p \in DOMAIN persists : PersistSet(p)
  \/ InitCall
  \/ InitLoaded
  \/ NewAgent
  \/ SubmitQuery
  \/ Stop
  \/ TransportAccept
  \/ \E message \in TransportMessages \ {AbortMessage} :
       TransportReject(message)
  \/ TransportAborted
  \/ RefreshDone
  \/ RefreshReject
  \/ StreamEvent
  \/ \E failed \in BOOLEAN : StreamEnd(failed)

\* One request of the agent alone, over more wordings of the transport's
\* errors; the request may be cancelled at any moment.
SpecRequest == InitAgent /\ [][NextRequest]_vars

\* a step that is the cancellation or a transport call given up because of it
CancellationStep ==
  \/ q'.aborted /\ ~q.aborted
  \/ /\ q.aborted
     /\ RejectionStep
     /\ q'.lastError = AbortMessage

\* C27: cancelling a request changes nothing in the Key Manager: neither the
\* call of stop() nor an attempt given up because of it changes the pool or
\* activeKeyIndex.
C27_CancellationLeavesKeyManager ==
  [][CancellationStep
     => /\ keys' = keys
        /\ activeKeyIndex' = activeKeyIndex]_vars

(***************************************************************************)
(* Failure classification                                                  *)
(***************************************************************************)
\* s contains sub when the case of letters is ignored
ContainsIgnoringCase(s, sub) ==
  \E j \in 1..(Len(s) - Len(sub) + 1) :
    toLowerCase(SubSeq(s, j, j + Len(sub) - 1)) = toLowerCase(sub)

RateLimitWording(message) ==
  \/ Includes(message, "429")
  \/ ContainsIgnoringCase(message, "quota")
  \/ ContainsIgnoringCase(message, "rate limit")

\* a rejection that submitQuery reports to the manager
ReportedRejection ==
  /\ RejectionStep
  /\ q'.lastError # NoMessage
  /\ q.i < q.maxRetries - 1
  /\ InRange(keys, activeKeyIndex)

\* C28: when a rejected attempt is reported to the manager, the key that was
\* active is left rate-limited if and only if the message contains "429", or
\* "quota" or "rate limit" in any case; after any other message it is left
\* invalid; a rate-limit-class rejection makes no key invalid.
C28_FailureClassification ==
  [][ReportedRejection
     => LET message == q'.lastError
            failed == keys'[activeKeyIndex + 1]
        IN /\ Len(keys') = Len(keys)
           /\ failed.status = "rate-limited" <=> RateLimitWording(message)
           /\ ~RateLimitWording(message) => failed.status = "invalid"
           /\ RateLimitWording(message) =>
                \A p \in DOMAIN keys :
                  keys'[p].status = "invalid" => keys[p].status = "invalid"]_vars

\* a rejection worded in capitals left the first key rate-limited and the
\* second one active
C28_Witness ==
  /\ op.name = "submitQuery.catch"
  /\ q.lastError = "RATE LIMIT reached"
  /\ q.pc = "refreshing"
  /\ Len(keys) >= 2
  /\ activeKeyIndex = 1
  /\ keys[1].status = "rate-limited"
  /\ keys[1].errorCount = 1
  /\ keys[1].resetTime = now + BaseResetTime
  /\ \A p \in DOMAIN keys : keys[p].status # "invalid"

(***************************************************************************)
(* The credential slot of the transport                                    *)
(***************************************************************************)
\* a step in which submitQuery calls sendMessageStream
TransportInvocation ==
  /\ q'.pc = "sending"
  /\ q'.attempts = q.attempts + 1 \/ q.pc = "idle"

\* C29: whenever submitQuery invokes the transport on a non-empty pool, the
\* credential slot process.env.GEMINI_API_KEY holds the secret of the key at
\* activeKeyIndex.
C29_SlotHoldsActiveKey ==
  [][(TransportInvocation /\ Len(keys') > 0)
     => /\ InRange(keys', activeKeyIndex')
        /\ envKey' = At(keys', activeKeyIndex').key]_vars

(***************************************************************************)
(* The order of rotation                                                   *)
(***************************************************************************)
\* C30: switchToNextAvailableKey selects the key at ring offset i from
\* activeKeyIndex + 1 for the smallest i in 0..N-1 whose key is valid or
\* rate-limited with a passed resetTime, the active key itself being the
\* last candidate; no other key's status, resetTime or errorCount changes
\* (a position holding the selected key record itself shows that key).
C30_FirstQualifyingInRingOrder ==
  [][(UserCallStep("switchToNextAvailableKey") /\ QualifyingOffsets # {})
     => LET i == Min(QualifyingOffsets)
            index == (activeKeyIndex + 1 + i) % Len(keys)
        IN /\ op'.ret = index
           /\ activeKeyIndex' = index
           /\ i = Len(keys) - 1 <=> index = activeKeyIndex
           /\ Len(keys') = Len(keys)
           /\ At(keys', index).status = "valid"
           /\ \A p \in DOMAIN keys :
                refs[p] # refs[index + 1]
                => Health(keys'[p]) = Health(keys[p])]_vars

\* a rotation that came back to the key already active, the last candidate,
\* after passing over an invalid key and a key still cooling down
C30_Witness ==
  /\ op.name = "switchToNextAvailableKey"
  /\ op.ret = activeKeyIndex
  /\ Len(keys) = 3
  /\ persists # <<>>
  /\ store.keyManagerState.present
  /\ store.keyManagerState.activeKeyIndex = activeKeyIndex
  /\ At(keys, activeKeyIndex).lastUsed = now
  /\ \E p \in DOMAIN keys : keys[p].status = "invalid"
  /\ \E p \in DOMAIN keys :
       keys[p].status = "rate-limited" /\ keys[p].resetTime > now

(***************************************************************************)
(* A rotation that finds no key                                            *)
(***************************************************************************)
\* C31: when switchToNextAvailableKey finds no qualifying candidate it
\* returns none, leaves the pool and activeKeyIndex as they were, invokes no
\* observer and starts no persistState call.
C31_FailedRotationChangesNothing ==
  [][(UserCallStep("switchToNextAvailableKey") /\ QualifyingOffsets = {})
     => /\ op'.ret = NoKey
        /\ keys' = keys
        /\ refs' = refs
        /\ activeKeyIndex' = activeKeyIndex
        /\ op'.notify = 0
        /\ notifications' = notifications
        /\ persists' = persists
        /\ store' = store]_vars

\* a rotation over a pool with an invalid key and a key still cooling down,
\* with an observer registered
C31_Witness ==
  /\ op.name = "switchToNextAvailableKey"
  /\ op.ret = NoKey
  /\ op.notify = 0
  /\ onStatusChangeCallback # NoObserver
  /\ Quiescent
  /\ Len(keys) >= 2
  /\ \E p \in DOMAIN keys : keys[p].status = "invalid"
  /\ \E p \in DOMAIN keys :
       keys[p].status = "rate-limited" /\ keys[p].resetTime > now
  /\ \A p \in DOMAIN keys : keys[p].status # "valid"

(***************************************************************************)
(* getActiveKey and hasAvailableKeys                                       *)
(***************************************************************************)
\* C32: getActiveKey returns none exactly when hasAvailableKeys() is false
\* at that moment, that is when the pool is empty or holds no key that is
\* valid or rate-limited with a passed resetTime; a key it returns is valid
\* and is the key at activeKeyIndex after the call.
C32_GetActiveKeyMatchesAvailability ==
  [][UserCallStep("getActiveKey")
     => /\ op'.ret = NoKey <=> ~hasAvailableKeys(keys, now)
        /\ hasAvailableKeys(keys, now)
             <=> \E p \in DOMAIN keys :
                   keys[p].status = "valid" \/ Expired(keys[p])
        /\ op'.ret # NoKey =>
             /\ op'.ret = activeKeyIndex'
             /\ InRange(keys', op'.ret)
             /\ At(keys', op'.ret).status = "valid"]_vars

\* getActiveKey found the active key unusable and returned another one,
\* revived from a passed cooldown
C32_Witness ==
  /\ op.name = "getActiveKey"
  /\ op.ret # NoKey
  /\ op.ret = activeKeyIndex
  /\ op.notify = 1
  /\ At(keys, op.ret).status = "valid"
  /\ At(keys, op.ret).lastUsed = now
  /\ persists # <<>>
  /\ store.keyManagerState.present
  /\ store.keyManagerState.activeKeyIndex # activeKeyIndex
  /\ Len(store.keyManagerState.keys) = Len(keys)
  /\ At(store.keyManagerState.keys, op.ret).status = "rate-limited"

(***************************************************************************)
(* The keys one request is attempted with                                  *)
(***************************************************************************)
\* C33: within one submitQuery call no credential is used for more than one
\* attempt.
C33_NoKeyUsedTwice ==
  \A i, j \in DOMAIN q.used : i # j => q.used[i] # q.used[j]

(***************************************************************************)
(* The events of an accepted attempt                                       *)
(***************************************************************************)
\* the positions of the events of a type
Positions(type) == {j \in DOMAIN events : events[j].type = type}

\* the events the stream or its end produced
StreamPositions ==
  {j \in DOMAIN events :
     \/ events[j].type \in {"content", "finish"}
     \/ events[j].type = "error" /\ events[j].data = StreamErrorMessage}

\* C34: when the transport accepts an attempt submitQuery emits 'start' and
\* returns; 'start' is emitted once and precedes every event of the stream;
\* no 'finish' is emitted while the stream is consumed and exactly one, the
\* last event, once it has ended, preceded by 'error' if the stream failed;
\* no step of the stream's consumption changes the Key Manager.
C34_AcceptedAttemptEvents ==
  /\ [](q.pc \in {"streaming", "finished"} =>
          /\ Cardinality(Positions("start")) = 1
          /\ \A s \in Positions("start"), j \in StreamPositions : s < j
          /\ q.pc = "streaming" => Positions("finish") = {}
          /\ q.pc = "finished" =>
               /\ Positions("finish") = {Len(events)}
               /\ \A j \in StreamPositions :
                    events[j].type = "error" => j = Len(events) - 1)
  /\ [][(q.pc = "sending" /\ q'.pc = "streaming")
        => /\ events' = Append(events, Event("start", ""))
           /\ op'.name = "submitQuery.accepted"
           /\ UNCHANGED kmVars]_vars
  /\ [][(q.pc = "streaming" /\ q' # q)
        => /\ q'.pc \in {"streaming", "finished"}
           /\ UNCHANGED <<kmVars, persists, store, envKey>>]_vars

\* a request accepted at its second attempt whose stream delivered an event
\* and then failed
C34_Witness ==
  /\ q.pc = "finished"
  /\ Len(events) = 5
  /\ events[1].type = "info"
  /\ events[2].type = "start"
  /\ events[3].type = "content"
  /\ events[4] = Event("error", StreamErrorMessage)
  /\ events[5].type = "finish"

(***************************************************************************)
(* C35: persists that overlap                                              *)
(***************************************************************************)
\* a call whose caller does not wait for the persistState() calls of earlier
\* mutations: switchToNextAvailableKey never awaits its own, and submitQuery
\* awaits none of the marks it makes
Unawaited(r, name, arg) ==
  /\ initialized
  /\ calls > 0
  /\ calls' = calls - 1
  /\ Apply(r, name, arg)
  /\ UNCHANGED <<initialized, initCall, now, store, envKey, q, events>>

NextOverlap ==
  \/ \E p \in DOMAIN persists : PersistGet(p)
  \/ \E p \in DOMAIN persists : PersistSet(p)
  \/ InitCall
  \/ InitLoaded
  \/ Unawaited(switchToNextAvailableKey(KM, now), "switchToNextAvailableKey",
               NoKey)
  \/ \E override \in Overrides(now) :
       Unawaited(markCurrentAsRateLimited(KM, override, now),
                 "markCurrentAsRateLimited", override)
  \/ Unawaited(markCurrentAsInvalid(KM), "markCurrentAsInvalid", NoKey)

\* The manager under callers that do not await its persists.
SpecOverlap == Init /\ [][NextOverlap]_vars

\* C35: whenever no persistence write is in flight, the stored keyManagerState
\* has the pool's secrets in the pool's order, each key's status, resetTime
\* and errorCount, and the activeKeyIndex of the manager.
C35_DurableMatchesMemory ==
  (initialized /\ Quiescent)
  => /\ store.keyManagerState.present
     /\ [p \in DOMAIN store.keyManagerState.keys |->
           store.keyManagerState.keys[p].key]
          = [p \in DOMAIN keys |-> keys[p].key]
     /\ \A p \in DOMAIN keys :
          Health(store.keyManagerState.keys[p]) = Health(keys[p])
     /\ store.keyManagerState.activeKeyIndex = activeKeyIndex

(***************************************************************************)
(* C36: status, errorCount and resetTime agree                             *)
(***************************************************************************)
\* The manager across restarts, from configurations without a stored
\* keyManagerState: every key starts fresh.
SpecFresh == InitWith(BackoffConfigs, MaxCalls) /\ [][NextRestart]_vars

\* C36: from an init with no persisted state, in every state every valid key
\* has errorCount 0 and no resetTime, and every rate-limited key has
\* errorCount >= 1 and a resetTime.
C36_StatusAgreesWithCounters ==
  \A p \in DOMAIN keys :
    /\ keys[p].status = "valid"
       => keys[p].errorCount = 0 /\ keys[p].resetTime = Undefined
    /\ keys[p].status = "rate-limited"
       => keys[p].errorCount >= 1 /\ keys[p].resetTime # Undefined

\* a key that was rate-limited and marked again after its cooldown had passed
\* and it was valid once more, beside a valid key that has been used
C36_Witness ==
  /\ initialized
  /\ now > StartTime
  /\ \E p, r \in DOMAIN keys :
       /\ keys[p].status = "rate-limited"
       /\ keys[p].errorCount = 1
       /\ keys[p].resetTime > now
       /\ keys[p].lastUsed # Undefined
       /\ keys[r].status = "valid"
       /\ keys[r].lastUsed # Undefined

(***************************************************************************)
(* C37: one pool entry per secret                                          *)
(***************************************************************************)
\* C37: no two pool positions hold the same secret, and no two positions
\* hold the same key record.
C37_SecretsDistinct ==
  \A i, j \in DOMAIN keys :
    i # j => keys[i].key # keys[j].key /\ refs[i] # refs[j]

(***************************************************************************)
(* C38: removing a key that is not the active one                          *)
(***************************************************************************)
\* C38: a successful removeKey(i) with i different from activeKeyIndex leaves
\* the same key active: the key at activeKeyIndex after the call has the
\* secret, status, resetTime and errorCount of the key at activeKeyIndex
\* before it.
C38_RemoveOtherKeepsActiveKey ==
  [][(UserCallStep("removeKey") /\ op'.ok /\ op'.arg # activeKeyIndex)
     => /\ InRange(keys, activeKeyIndex)
        /\ InRange(keys', activeKeyIndex')
        /\ At(keys', activeKeyIndex').key = At(keys, activeKeyIndex).key
        /\ Health(At(keys', activeKeyIndex'))
             = Health(At(keys, activeKeyIndex))]_vars

\* a key before the active one was removed while the active key was cooling
\* down: the active index moved down with its key
C38_Witness ==
  /\ op.name = "removeKey"
  /\ op.ok
  /\ op.arg <= activeKeyIndex
  /\ activeKeyIndex >= 1
  /\ InRange(keys, activeKeyIndex)
  /\ At(keys, activeKeyIndex).status = "rate-limited"
  /\ At(keys, activeKeyIndex).errorCount >= 1

(***************************************************************************)
(* C39: every request ends with a terminal event                           *)
(***************************************************************************)
\* the store, the transport, refreshAuth and the stream each answer
Answers ==
  \/ \E p \in DOMAIN persists : PersistGet(p)
  \/ \E p \in DOMAIN persists : PersistSet(p)
  \/ TransportAccept
  \/ \E message \in TransportMessages : TransportReject(message)
  \/ RefreshDone
  \/ RefreshReject
  \/ StreamEvent
  \/ \E failed \in BOOLEAN : StreamEnd(failed)

\* One request of the agent, every pending call of which is answered.
SpecRequestLive == SpecRequest /\ WF_vars(Answers)

\* the request's events hold a 'finish' or an 'error'
TerminalEventEmitted ==
  \E j \in DOMAIN events : events[j].type \in {"finish", "error"}

\* submitQuery has rejected because refreshAuth did
RefreshAuthRejected == q.pc = "threw" /\ q.lastError # NoMessage

\* C39: every submitQuery call eventually yields a 'finish' event or a
\* terminal 'error' event for its request, whatever the transport's
\* rejections carry, provided every transport call and refreshAuth call
\* returns and every accepted stream ends.
C39_RequestReachesTerminalEvent ==
  (q.pc = "sending") ~> (TerminalEventEmitted \/ RefreshAuthRejected)

(***************************************************************************)
(* C40: init called again while an init call awaits the store              *)
(***************************************************************************)
\* a second init call while the first awaits ConfigStorage.get: the flag is
\* still false, so this call awaits the store too
OverlappingInitCall ==
  /\ initCall = "get"
  /\ initCall' = IF InitEntry(initialized) = "get" THEN "both" ELSE initCall
  /\ op' = Call("init", NoKey, NoKey, TRUE)
  /\ UNCHANGED <<kmVars, now, store, persists, envKey, q, events, calls>>
  /\ UNCHANGED obsVars

\* one of two pending init calls resumes with the configuration read:
\* reconcile, clean up, set the flag, persist
InitResumes(pending, rest) ==
  /\ initCall = pending
  /\ initCall' = rest
  /\ initialized' = TRUE
  /\ Apply(init(KM, store, now), "init", NoKey)
  /\ UNCHANGED <<now, store, envKey, q, events, calls>>

NextInitOverlap ==
  \/ \E p \in DOMAIN persists : PersistGet(p)
  \/ \E p \in DOMAIN persists : PersistSet(p)
  \/ InitCall
  \/ InitLoaded
  \/ OverlappingInitCall
  \/ InitResumes("both", "second")
  \/ InitResumes("second", "done")
  \/ SwitchToNextAvailableKey
  \/ \E override \in Overrides(now) : MarkCurrentAsRateLimited(override)
  \/ MarkCurrentAsInvalid

\* The manager with init called a second time before the first call has
\* read the configuration.
SpecInitOverlap == Init /\ [][NextInitOverlap]_vars

\* C40: when a second init call starts while the first still awaits the
\* store, the pool is reconciled from the configuration once: after the flag
\* is set no step of an init call changes the pool's secrets or any key's
\* status, resetTime or errorCount, so status changes made in between are
\* kept.
C40_InitOnceUnderOverlap ==
  [][(initialized /\ InitStep)
     => /\ Len(keys') = Len(keys)
        /\ \A p \in DOMAIN keys :
             /\ keys'[p].key = keys[p].key
             /\ Health(keys'[p]) = Health(keys[p])]_vars

====
